---- MODULE Spec2Model ----
(***************************************************************************)
(* Model of the parallel differential harness of bllvm-bench               *)
(* (src/src/parallel_differential.rs): run_parallel_differential,          *)
(* generate_checkpoints (Phase A), the chunk builder, the semaphore-bound  *)
(* dispatch of validate_chunk workers (Phase B), process_block and the     *)
(* collection of the results.                                              *)
(*                                                                         *)
(* A UTXO set is a set of coins; the coin created by the coinbase of the   *)
(* block at height h is written h.  UTXO sets live in a heap of owned      *)
(* objects (heap), so that clone() and a shared reference differ.          *)
(*                                                                         *)
(* Second part: the chunked cache reader (src/src/chunked_cache.rs),       *)
(* load_chunked_cache, load_chunk_blocks and load_chunk_metadata.  A block *)
(* of the cache is written as its cache index.  The parts share no state:  *)
(* the specification of one leaves the variables of the others at their    *)
(* idle values.                                                            *)
(***************************************************************************)
EXTENDS Integers, Sequences, FiniteSets, TLC

\* ---------------------------------------------------------------- bounds
\* Heights 0..MaxHeight exist; chunk sizes and worker counts range up to
\* MaxHeight, so that several chunks, a last short chunk and a full
\* semaphore occur.
MaxHeight == 2
MaxChunk == MaxHeight
MaxWorkers == MaxHeight
\* At most MaxFaults things are out of the ordinary in one run: blocks of the
\* chain that are not plain valid blocks, and answers of the environment
\* (reference node, block source) that are failures or a lowered chain height.
\* A reference node that does not have a block which is not a plain valid
\* block is nothing out of the ordinary.
MaxFaults == 1

Heights == 0..MaxHeight

\* BlockDataSource (enum, lines 16-25); SharedCache carries Option<client>.
Sources == {"DirectFile", "SharedCacheNone", "SharedCacheClient", "Rpc", "Start9Rpc"}

\* Sources for which getblockcount / get_block_count is asked (lines 200-209).
HasClient(src) == src \in {"Rpc", "Start9Rpc", "SharedCacheClient"}

\* What a block's bytes are: a block that connects, a block spending the
\* coin of the previous height, bytes that do not deserialize, bytes shorter
\* than a header, and a block on which connect_block returns Err.
BlockKinds == {"valid", "spend", "malformed", "short", "err"}

Special(c) == Cardinality({h \in Heights : c[h] # "valid"})

Chains == {c \in [Heights -> BlockKinds] : Special(c) <= MaxFaults}

\* Answers of the reference node to getblockcount; -1 is an RPC error.
ChainHeights == {-1, 0, MaxHeight - 1, MaxHeight}

\* An answer counts as a fault when it is an error or below the full height.
ChainFault(ans) == IF ans < MaxHeight THEN 1 ELSE 0

Fault(b) == IF b THEN 1 ELSE 0

\* A failed reference query counts as a fault when the block is a plain valid one.
RefFault(ref_ok, kind) == IF ~ref_ok /\ kind = "valid" THEN 1 ELSE 0

Min(a, b) == IF a <= b THEN a ELSE b

VARIABLES
  cfg,            \* start_height, end_height, ParallelConfig, block source
  blocks,         \* the block bytes served at each height
  pc,             \* position of run_parallel_differential
  actual_end,     \* run_parallel_differential: actual_end (line 876)
  gen,            \* generate_checkpoints locals: actual_end, height, next_checkpoint
  checkpoints,    \* generate_checkpoints: Vec<(u64, UtxoSet)>
  chunks,         \* Vec<BlockChunk>
  current_start,  \* chunk builder local (line 894)
  checkpoint_idx, \* chunk builder local (line 895)
  permits,        \* free permits of the semaphore
  tasks,          \* spawned validate_chunk tasks, by chunk index
  results,        \* Vec<ChunkResult> returned
  collect_idx,    \* number of handles awaited
  reports,        \* what the harness printed about chunks
  heap,           \* the UtxoSet objects, by owner
  connectLog,     \* history: every connect_block call made
  faults,         \* environment faults so far
  cache_dir,      \* chunked cache directory: chunks.meta and the chunk files
  call,           \* load_chunked_cache: arguments and build of the call
  lpc,            \* position of load_chunked_cache
  load,           \* load_chunked_cache locals: indices, chunk_num, all_blocks
  ret,            \* value returned by load_chunked_cache
  decoded,        \* value returned by load_chunk_blocks
  meta_file,      \* chunks.meta as load_chunk_metadata finds it
  meta_ret,       \* value returned by load_chunk_metadata
  pb,             \* process_block: the block, the worker's set, the connector
  pb_ret,         \* process_block: the verdict and the worker's set after it
  rbf,            \* replacement_checks: the incumbent and the replacement
  rbf_ret         \* value returned by replacement_checks

harnessVars == <<cfg, blocks, pc, actual_end, gen, checkpoints, chunks,
                 current_start, checkpoint_idx, permits, tasks, results,
                 collect_idx, reports, heap, connectLog, faults>>

cacheVars == <<cache_dir, call, lpc, load, ret, decoded>>

metaVars == <<meta_file, meta_ret>>

unitVars == <<pb, pb_ret, rbf, rbf_ret>>

vars == <<harnessVars, cacheVars, metaVars, unitVars>>

\* ------------------------------------------------------------ UTXO heap
GenLoc == <<"gen", 0>>
CpLoc(i) == <<"cp", i>>
ChunkLoc(k) == <<"chunk", k>>

Locs == {GenLoc} \cup {CpLoc(i) : i \in 1..(MaxHeight + 1)}
          \cup {ChunkLoc(k) : k \in 1..(MaxHeight + 1)}

\* Faulty variant: a clone that hands out the source object itself.
CloneShared(src, new) == src

\* UtxoSet::clone(): the holder of the clone owns a new object `new`.
CloneTarget(src, new) == new

\* heap after `new = src.clone()`.
HeapClone(h, src, new) ==
  [h EXCEPT ![CloneTarget(src, new)] = h[src]]

\* -------------------------------------------------------- connect_block
\* connect_block(block, witnesses, utxo_in, height, None, Mainnet):
\* Err, or Ok((result, utxo_out, undo)).
ConnectBlock(kind, utxo, h) ==
  IF kind = "err"
    THEN [ok |-> FALSE, result |-> "Invalid", utxo |-> utxo]
    ELSE IF kind = "spend" /\ (h - 1) \notin utxo
      THEN [ok |-> TRUE, result |-> "Invalid", utxo |-> utxo]
      ELSE [ok |-> TRUE, result |-> "Valid",
            utxo |-> (IF kind = "spend" THEN utxo \ {h - 1} ELSE utxo) \cup {h}]

\* deserialize_block_with_witnesses succeeds.
Deserializes(kind) == kind \notin {"malformed", "short"}

\* ------------------------------------------------------------------ Init
\* The locals of load_chunked_cache before the call.
NoLoad ==
  [start_idx |-> 0, end_idx |-> 0, chunk_num |-> 0, last_chunk |-> 0,
   all_blocks |-> <<>>, blocks_in_chunk |-> 0,
   zstd_proc |-> [state |-> "none", exit_ok |-> TRUE]]

\* A call that has not returned.
Pending == [kind |-> "Pending", blocks |-> <<>>, err |-> ""]

\* load_chunked_cache and load_chunk_blocks are not called.
CacheIdle ==
  /\ cache_dir = [metadata |-> {}, present |-> {}, streams |-> <<>>]
  /\ call = [start_height |-> {}, max_blocks |-> {}, overflow_checks |-> TRUE]
  /\ lpc = "idle"
  /\ load = NoLoad
  /\ ret = Pending
  /\ decoded = Pending

\* process_block and replacement_checks are not called.
UnitIdle ==
  /\ pb = [called |-> FALSE]
  /\ pb_ret = [kind |-> "Pending"]
  /\ rbf = [called |-> FALSE]
  /\ rbf_ret = "Pending"

\* load_chunk_metadata is not called.
MetaIdle ==
  /\ meta_file = [exists |-> FALSE, readable |-> TRUE, lines |-> <<>>]
  /\ meta_ret = [kind |-> "Pending", metadata |-> {}]

Init ==
  /\ cfg \in [start_height : 0..1,
              end_height : {MaxHeight},
              chunk_size : 1..MaxChunk,
              num_workers : 1..MaxWorkers,
              use_checkpoints : BOOLEAN,
              source : Sources]
  /\ blocks \in Chains
  /\ pc = "start"
  /\ actual_end = 0
  /\ gen = [actual_end |-> 0, height |-> 0, next_checkpoint |-> 0]
  /\ checkpoints = <<>>
  /\ chunks = <<>>
  /\ current_start = 0
  /\ checkpoint_idx = 0
  /\ permits = 0
  /\ tasks = <<>>
  /\ results = <<>>
  /\ collect_idx = 0
  /\ reports = {}
  /\ heap = [l \in Locs |-> {}]
  /\ connectLog = {}
  /\ faults = Special(blocks)
  /\ CacheIdle
  /\ MetaIdle
  /\ UnitIdle

\* ------------------------------------------------ run_parallel_differential
\* Lines 864-890: chain height, actual_end, choice of Phase A.
RunStart ==
  /\ pc = "start"
  /\ \E ans \in ChainHeights :
       LET client == HasClient(cfg.source)
           chain_height == IF client THEN ans ELSE cfg.end_height
       IN /\ (~client => ans = MaxHeight)
          /\ faults + ChainFault(ans) <= MaxFaults
          /\ faults' = faults + ChainFault(ans)
          /\ IF client /\ ans = -1
               THEN /\ pc' = "failed"      \* getblockcount().await? is Err
                    /\ UNCHANGED <<actual_end, current_start>>
               ELSE /\ actual_end' = Min(cfg.end_height, chain_height)
                    /\ current_start' = cfg.start_height
                    /\ pc' = IF cfg.use_checkpoints THEN "gen_start" ELSE "chunks"
  /\ UNCHANGED <<cacheVars, metaVars, unitVars, cfg, blocks, gen, checkpoints, chunks, checkpoint_idx, permits,
                 tasks, results, collect_idx, reports, heap, connectLog>>

\* ----------------------------------------------------- generate_checkpoints
\* Lines 460 and 544: the heights at which a checkpoint is pushed.
IsCheckpointHeight(height, next_checkpoint, end) ==
  height = next_checkpoint - 1 \/ height = end

\* Lines 190-222: locals, chain height, actual_end, next_checkpoint and (for
\* DirectFile) the sequential iterator.  `end_height - start_height` (line 191)
\* underflows when the range is empty: a panic with overflow checks, a wrapped
\* capacity estimate without.
GenStart ==
  /\ pc = "gen_start"
  /\ \E ans \in ChainHeights, wraps \in BOOLEAN, opened \in BOOLEAN :
       LET client == HasClient(cfg.source)
           chain_height == IF client THEN ans ELSE actual_end
           gend == Min(actual_end, chain_height)
           panics == cfg.chunk_size = 0 \/ (actual_end < cfg.start_height /\ ~wraps)
       IN /\ (~client => ans = MaxHeight)
          /\ (actual_end >= cfg.start_height => wraps)
          /\ (cfg.source # "DirectFile" => opened)
          /\ (panics => ans = MaxHeight /\ opened)    \* line 191 comes first
          /\ faults + ChainFault(ans) + Fault(~opened) <= MaxFaults
          /\ faults' = faults + ChainFault(ans) + Fault(~opened)
          /\ IF panics
               THEN pc' = "panicked" /\ UNCHANGED gen
               ELSE IF client /\ ans = -1
                 THEN pc' = "failed" /\ UNCHANGED gen
                 ELSE IF ~opened
                   THEN pc' = "failed" /\ UNCHANGED gen
                   ELSE /\ gen' = [actual_end |-> gend,
                                   height |-> cfg.start_height,
                                   next_checkpoint |-> cfg.start_height + cfg.chunk_size]
                        /\ pc' = "gen_loop"
  /\ UNCHANGED <<cacheVars, metaVars, unitVars, cfg, blocks, actual_end, checkpoints, chunks, current_start,
                 checkpoint_idx, permits, tasks, results, collect_idx, reports,
                 heap, connectLog>>

\* The last height the loop of generate_checkpoints visits.  The cache/RPC
\* loop is `start_height..=actual_end` (line 477).  The DirectFile iterator is
\* given the count `actual_end - start_height + 1` (line 222): where that
\* wraps to a huge count (start_height above actual_end + 1, no overflow
\* checks) it yields every block the files hold from start_height on.
GenLast ==
  IF cfg.source = "DirectFile" /\ gen.actual_end + 1 < cfg.start_height
    THEN MaxHeight ELSE gen.actual_end

\* Lines 433-465 and 517-550: connect_block on the working set, then the
\* checkpoint push.  Common to both loops of generate_checkpoints.
GenConnect(height) ==
  LET c == ConnectBlock(blocks[height], heap[GenLoc], height)
      n == Len(checkpoints) + 1
      h1 == [heap EXCEPT ![GenLoc] = c.utxo]
  IN /\ connectLog' = connectLog \cup
                        {[phase |-> "A", height |-> height, utxo_in |-> heap[GenLoc]]}
     /\ IF ~c.ok \/ c.result # "Valid"
          THEN /\ pc' = "failed"       \* `?` on Err, bail! on Invalid
               /\ UNCHANGED <<gen, checkpoints, heap>>
          ELSE /\ pc' = pc
               /\ IF IsCheckpointHeight(height, gen.next_checkpoint, gen.actual_end)
                    THEN /\ checkpoints' = Append(checkpoints,
                                [height |-> height, utxo |-> CloneTarget(GenLoc, CpLoc(n))])
                         /\ heap' = HeapClone(h1, GenLoc, CpLoc(n))
                         /\ gen' = [gen EXCEPT !.height = height + 1,
                                               !.next_checkpoint = @ + cfg.chunk_size]
                    ELSE /\ checkpoints' = checkpoints
                         /\ heap' = h1
                         /\ gen' = [gen EXCEPT !.height = height + 1]

\* Lines 224-473: one iteration of the DirectFile loop.
GenStepDirect ==
  /\ pc = "gen_loop"
  /\ cfg.source = "DirectFile"
  /\ gen.height <= GenLast
  /\ \E read_ok \in BOOLEAN :
       /\ faults + Fault(~read_ok) <= MaxFaults
       /\ faults' = faults + Fault(~read_ok)
       /\ IF ~read_ok \/ blocks[gen.height] = "short"
            THEN /\ pc' = "failed"         \* lines 228-237
                 /\ UNCHANGED <<gen, checkpoints, heap, connectLog>>
            ELSE IF ~Deserializes(blocks[gen.height])
              THEN /\ gen' = [gen EXCEPT !.height = @ + 1]   \* line 257: continue
                   /\ UNCHANGED <<pc, checkpoints, heap, connectLog>>
              ELSE GenConnect(gen.height)
  /\ UNCHANGED <<cacheVars, metaVars, unitVars, cfg, blocks, actual_end, chunks, current_start, checkpoint_idx,
                 permits, tasks, results, collect_idx, reports>>

\* Lines 477-558: one iteration of the cache/RPC loop.
GenStepFetch ==
  /\ pc = "gen_loop"
  /\ cfg.source # "DirectFile"
  /\ gen.height <= gen.actual_end
  /\ \E fetch_ok \in BOOLEAN :
       /\ faults + Fault(~fetch_ok) <= MaxFaults
       /\ faults' = faults + Fault(~fetch_ok)
       /\ IF ~fetch_ok \/ ~Deserializes(blocks[gen.height])
            THEN /\ pc' = "failed"         \* lines 478 and 480: `?`
                 /\ UNCHANGED <<gen, checkpoints, heap, connectLog>>
            ELSE GenConnect(gen.height)
  /\ UNCHANGED <<cacheVars, metaVars, unitVars, cfg, blocks, actual_end, chunks, current_start, checkpoint_idx,
                 permits, tasks, results, collect_idx, reports>>

\* Line 562: Ok(checkpoints), back in run_parallel_differential (line 887).
GenDone ==
  /\ pc = "gen_loop"
  /\ gen.height > GenLast
  /\ pc' = "chunks"
  /\ UNCHANGED <<cacheVars, metaVars, unitVars, cfg, blocks, actual_end, gen, checkpoints, chunks, current_start,
                 checkpoint_idx, permits, tasks, results, collect_idx, reports,
                 heap, connectLog, faults>>

\* ------------------------------------------------------------ chunk builder
\* Faulty variant: a chunk end that is not clipped to actual_end.
ChunkEndUnclipped(start, chunk_size, end) == start + chunk_size - 1

\* Line 898: chunk_end.
ChunkEnd(start, chunk_size, end) == Min(start + chunk_size - 1, end)

\* Line 918: current_start = chunk_end + 1.
NextStart(chunk_end) == chunk_end + 1

\* The chunk list is followed up to one chunk more than a range of
\* MaxHeight + 1 heights can hold.
MaxChunksBuilt == MaxHeight + 2

\* Lines 897-922: one iteration of the chunk-building loop.  `seed` records
\* which checkpoint (index, 0 for none) the chunk's snapshot was cloned from.
\* `current_start + config.chunk_size - 1` (line 898) underflows when both
\* are 0: a panic with overflow checks, u64::MAX clipped to actual_end without.
BuildChunk ==
  /\ pc = "chunks"
  /\ current_start <= actual_end
  /\ Len(chunks) < MaxChunksBuilt
  /\ \E wraps \in BOOLEAN :
       LET k == Len(chunks) + 1
           underflow == current_start + cfg.chunk_size = 0
           chunk_end == IF underflow THEN actual_end
                        ELSE ChunkEnd(current_start, cfg.chunk_size, actual_end)
           from_cp == cfg.use_checkpoints /\ checkpoint_idx > 0
           have == from_cp /\ checkpoint_idx - 1 < Len(checkpoints)
           fresh == ~from_cp /\ current_start = cfg.start_height
           src == checkpoints[checkpoint_idx].utxo
       IN /\ (~underflow => wraps)
          /\ IF ~wraps
               THEN /\ pc' = "panicked"
                    /\ UNCHANGED <<chunks, heap, current_start, checkpoint_idx>>
               ELSE /\ pc' = pc
                    /\ chunks' = Append(chunks,
                         [start_height |-> current_start,
                          end_height |-> chunk_end,
                          checkpoint_utxo |->
                            [some |-> have \/ fresh,
                             loc |-> IF have THEN CloneTarget(src, ChunkLoc(k))
                                     ELSE ChunkLoc(k)],
                          skip_validation |-> ~cfg.use_checkpoints,
                          seed |-> IF have THEN checkpoint_idx ELSE 0])
                    /\ heap' = IF have THEN HeapClone(heap, src, ChunkLoc(k)) ELSE heap
                    /\ current_start' = NextStart(chunk_end)
                    /\ checkpoint_idx' =
                         IF NextStart(chunk_end) <= actual_end
                              /\ checkpoint_idx < Len(checkpoints)
                           THEN checkpoint_idx + 1 ELSE checkpoint_idx
  /\ UNCHANGED <<cacheVars, metaVars, unitVars, cfg, blocks, actual_end, gen, checkpoints, permits, tasks,
                 results, collect_idx, reports, connectLog, faults>>

\* Lines 924-974: the loop has ended; cache-building mode for DirectFile
\* without checkpoints, otherwise the semaphore is created.
BuildDone ==
  /\ pc = "chunks"
  /\ current_start > actual_end
  /\ IF ~cfg.use_checkpoints /\ cfg.source = "DirectFile"
       THEN pc' = "cache_build" /\ UNCHANGED permits
       ELSE pc' = "dispatch" /\ permits' = cfg.num_workers
  /\ UNCHANGED <<cacheVars, metaVars, unitVars, cfg, blocks, actual_end, gen, checkpoints, chunks, current_start,
                 checkpoint_idx, tasks, results, collect_idx, reports, heap,
                 connectLog, faults>>

\* Lines 933-961: blocks are only read; Ok(Vec::new()) unless the iterator
\* cannot be created.  `actual_end - start_height + 1` (line 937) underflows
\* when the range is empty: a panic with overflow checks, a wrapped block
\* count without.
CacheBuild ==
  /\ pc = "cache_build"
  /\ \E opened \in BOOLEAN, wraps \in BOOLEAN :
       /\ (actual_end >= cfg.start_height => wraps)
       /\ (~wraps => opened)
       /\ faults + Fault(~opened) <= MaxFaults
       /\ faults' = faults + Fault(~opened)
       /\ pc' = IF ~wraps THEN "panicked"
                ELSE IF opened THEN "done" ELSE "failed"
  /\ UNCHANGED <<cacheVars, metaVars, unitVars, cfg, blocks, actual_end, gen, checkpoints, chunks, current_start,
                 checkpoint_idx, permits, tasks, results, collect_idx, reports,
                 heap, connectLog>>

\* ------------------------------------------------------------ process_block
\* Faulty variant: the worker keeps its old set after a successful connect_block.
ProcessBlockUtxoKeep(c, utxo) == utxo

\* Lines 586-604: *utxo_set = new_utxo_set on Ok (whatever the verdict),
\* unchanged on Err.
ProcessBlockUtxo(c, utxo) == IF c.ok THEN c.utxo ELSE utxo

\* ValidationResult / CoreValidationResult: Valid, or Invalid with a message.
Valid == [kind |-> "Valid", msg |-> ""]
Invalid(msg) == [kind |-> "Invalid", msg |-> msg]

\* Lines 596-603: the local verdict; Invalid carries the connector's message,
\* or the formatted error when connect_block returned Err.
LocalVerdict(c) ==
  IF c.ok THEN (IF c.result = "Valid" THEN Valid ELSE Invalid("consensus"))
  ELSE Invalid("connect_block error")

\* Faulty variant: without a reference node the block is taken to be unknown.
CoreVerdictUnknown(source, ref_ok) ==
  IF source \in {"DirectFile", "SharedCacheNone"} THEN Invalid("Block not in chain")
  ELSE IF ref_ok THEN Valid ELSE Invalid("Block not in chain")

\* Lines 607-667: the reference verdict; ref_ok is the answer of
\* client.getblock / client.get_block_hex.
CoreVerdict(source, ref_ok) ==
  IF source \in {"DirectFile", "SharedCacheNone"} THEN Valid
  ELSE IF ref_ok THEN Valid ELSE Invalid("Block not in chain")

\* Faulty variant: the verdicts are compared together with their messages.
MatchesWithMessage(blvm, core) == blvm = core

\* Lines 721-728 and 788-795: matches!((Valid, Valid) | (Invalid(_), Invalid(_))).
Matches(blvm, core) == blvm.kind = core.kind

\* ------------------------------------------------------------ validate_chunk
\* Faulty variant: heights counted from one past the chunk start.
EnumHeightOffByOne(start, idx) == start + idx + 1

\* Line 709: height of the idx-th block of the iterator; line 776: the idx-th
\* element of start_height..=actual_end.
EnumHeight(start, idx) == start + idx

Running(t) == t.status \in {"start", "loop"}
Finished(t) == t.status \in {"ok", "err"}

\* Faulty variant: a permit is never required.
CanAcquireAlways(p) == TRUE

\* Line 978: acquire_owned() completes only when a permit is free.
CanAcquire(p) == p > 0

\* Lines 977-988: acquire a permit and spawn the task of the next chunk.
Spawn ==
  /\ pc = "dispatch"
  /\ Len(tasks) < Len(chunks)
  /\ CanAcquire(permits)
  /\ permits' = permits - 1
  /\ tasks' = Append(tasks,
        [status |-> "start", idx |-> 0, actual_end |-> 0,
         utxo |-> ChunkLoc(Len(tasks) + 1), tested |-> 0, matched |-> 0,
         divergences |-> <<>>, processed |-> <<>>, verdicts |-> <<>>,
         ref_failed |-> {}])
  /\ UNCHANGED <<cacheVars, metaVars, unitVars, cfg, blocks, pc, actual_end, gen, checkpoints, chunks,
                 current_start, checkpoint_idx, results, collect_idx, reports,
                 heap, connectLog, faults>>

\* Line 988: every chunk has been spawned.
DispatchDone ==
  /\ pc = "dispatch"
  /\ Len(tasks) = Len(chunks)
  /\ pc' = "collect"
  /\ UNCHANGED <<cacheVars, metaVars, unitVars, cfg, blocks, actual_end, gen, checkpoints, chunks, current_start,
                 checkpoint_idx, permits, tasks, results, collect_idx, reports,
                 heap, connectLog, faults>>

\* The task ends (Ok or Err): its permit is dropped.
EndTask(w, t) ==
  /\ tasks' = [tasks EXCEPT ![w] = t]
  /\ permits' = permits + 1

\* Lines 682-706: the worker's set, chain height, actual_end, iterator.
WorkerStart(w) ==
  /\ w \in 1..Len(tasks)
  /\ tasks[w].status = "start"
  /\ \E ans \in ChainHeights, opened \in BOOLEAN :
       LET chunk == chunks[w]
           client == HasClient(cfg.source)
           chain_height == IF client THEN ans ELSE chunk.end_height
           loc == IF chunk.checkpoint_utxo.some THEN chunk.checkpoint_utxo.loc
                  ELSE ChunkLoc(w)
       IN /\ (~client => ans = MaxHeight)
          /\ (cfg.source # "DirectFile" => opened)
          /\ faults + ChainFault(ans) + Fault(~opened) <= MaxFaults
          /\ faults' = faults + ChainFault(ans) + Fault(~opened)
          /\ heap' = IF chunk.checkpoint_utxo.some /\ chunk.seed > 0 THEN heap
                     ELSE [heap EXCEPT ![loc] = {}]       \* UtxoSet::new()
          /\ IF (client /\ ans = -1) \/ ~opened
               THEN EndTask(w, [tasks[w] EXCEPT !.status = "err", !.utxo = loc])
               ELSE /\ tasks' = [tasks EXCEPT ![w] =
                          [@ EXCEPT !.status = "loop", !.utxo = loc,
                                    !.actual_end = Min(chunk.end_height, chain_height)]]
                    /\ permits' = permits
  /\ UNCHANGED <<cacheVars, metaVars, unitVars, cfg, blocks, pc, actual_end, gen, checkpoints, chunks,
                 current_start, checkpoint_idx, results, collect_idx, reports,
                 connectLog>>

\* Lines 708-772 and 776-839: one block of the chunk: fetch, process_block,
\* comparison of the verdicts, counters.  `verdicts` records both verdicts of
\* every block processed and `ref_failed` the heights whose reference query
\* was answered with an error.
WorkerStep(w) ==
  /\ w \in 1..Len(tasks)
  /\ tasks[w].status = "loop"
  /\ LET t == tasks[w]
         height == EnumHeight(chunks[w].start_height, t.idx)
     IN /\ height <= t.actual_end
        /\ \E got \in BOOLEAN, ref_ok \in BOOLEAN :
             /\ (~HasClient(cfg.source) => ref_ok)
             /\ (~got => ref_ok)
             /\ faults + Fault(~got) + RefFault(ref_ok, blocks[height]) <= MaxFaults
             /\ faults' = faults + Fault(~got) + RefFault(ref_ok, blocks[height])
             /\ IF ~got \/ ~Deserializes(blocks[height])
                  THEN /\ EndTask(w, [t EXCEPT !.status = "err"])
                       /\ UNCHANGED <<heap, connectLog>>
                  ELSE LET c == ConnectBlock(blocks[height], heap[t.utxo], height)
                           blvm == LocalVerdict(c)
                           core == CoreVerdict(cfg.source, ref_ok)
                       IN /\ connectLog' = connectLog \cup
                               {[phase |-> "B", height |-> height,
                                 utxo_in |-> heap[t.utxo]]}
                          /\ heap' = [heap EXCEPT ![t.utxo] =
                                        ProcessBlockUtxo(c, heap[t.utxo])]
                          /\ tasks' = [tasks EXCEPT ![w] =
                               [t EXCEPT
                                  !.idx = @ + 1,
                                  !.tested = @ + 1,
                                  !.matched = IF Matches(blvm, core) THEN @ + 1 ELSE @,
                                  !.divergences = IF Matches(blvm, core) THEN @
                                                  ELSE Append(@, <<height, blvm, core>>),
                                  !.processed = Append(@, height),
                                  !.verdicts = Append(@, <<height, blvm, core>>),
                                  !.ref_failed = IF ref_ok THEN @ ELSE @ \cup {height}]]
                          /\ permits' = permits
  /\ UNCHANGED <<cacheVars, metaVars, unitVars, cfg, blocks, pc, actual_end, gen, checkpoints, chunks,
                 current_start, checkpoint_idx, results, collect_idx, reports>>

\* Faulty variant: the result carries the end of the chunk as it was built.
ResultEndHeightOfChunk(chunk_end, task_end) == chunk_end

\* Line 847: end_height: actual_end.
ResultEndHeight(chunk_end, task_end) == task_end

\* Lines 843-853: Ok(ChunkResult).
WorkerFinish(w) ==
  /\ w \in 1..Len(tasks)
  /\ tasks[w].status = "loop"
  /\ EnumHeight(chunks[w].start_height, tasks[w].idx) > tasks[w].actual_end
  /\ EndTask(w, [tasks[w] EXCEPT !.status = "ok"])
  /\ UNCHANGED <<cacheVars, metaVars, unitVars, cfg, blocks, pc, actual_end, gen, checkpoints, chunks,
                 current_start, checkpoint_idx, results, collect_idx, reports,
                 heap, connectLog, faults>>

\* Lines 845-852: the ChunkResult of task w.
ChunkResultOf(w) ==
  [start_height |-> chunks[w].start_height,
   end_height |-> ResultEndHeight(chunks[w].end_height, tasks[w].actual_end),
   tested |-> tasks[w].tested,
   matched |-> tasks[w].matched,
   divergences |-> tasks[w].divergences]

\* Lines 993-1008: await the next handle, in spawn order.
Collect ==
  /\ pc = "collect"
  /\ collect_idx < Len(tasks)
  /\ LET w == collect_idx + 1
         t == tasks[w]
     IN /\ Finished(t)
        /\ collect_idx' = w
        /\ IF t.status = "ok"
             THEN /\ results' = Append(results, ChunkResultOf(w))
                  /\ reports' = reports \cup {<<"ok", w>>}
             ELSE /\ results' = results
                  /\ reports' = reports \cup {<<"failed", w>>}
  /\ UNCHANGED <<cacheVars, metaVars, unitVars, cfg, blocks, pc, actual_end, gen, checkpoints, chunks,
                 current_start, checkpoint_idx, permits, tasks, heap, connectLog, faults>>

\* Lines 1010-1032: summary and Ok(results).
Finish ==
  /\ pc = "collect"
  /\ collect_idx = Len(tasks)
  /\ pc' = "done"
  /\ reports' = reports \cup
        {<<"divergence", d[1]>> : d \in
           UNION {{results[i].divergences[j] : j \in 1..Len(results[i].divergences)} :
                    i \in 1..Len(results)}}
  /\ UNCHANGED <<cacheVars, metaVars, unitVars, cfg, blocks, actual_end, gen, checkpoints, chunks, current_start,
                 checkpoint_idx, permits, tasks, results, collect_idx, heap,
                 connectLog, faults>>

Next ==
  \/ RunStart
  \/ GenStart
  \/ GenStepDirect
  \/ GenStepFetch
  \/ GenDone
  \/ BuildChunk
  \/ BuildDone
  \/ CacheBuild
  \/ Spawn
  \/ DispatchDone
  \/ \E w \in 1..(MaxHeight + 1) : WorkerStart(w)
  \/ \E w \in 1..(MaxHeight + 1) : WorkerStep(w)
  \/ \E w \in 1..(MaxHeight + 1) : WorkerFinish(w)
  \/ Collect
  \/ Finish

Spec == Init /\ [][Next]_vars

\* ------------------------------------------------------------------ claims
\* generate_checkpoints has returned Ok to run_parallel_differential.
GenSucceeded ==
  cfg.use_checkpoints /\ pc \in {"chunks", "dispatch", "collect", "done"}

\* The chunk-building loop has ended.
ChunksBuilt == pc \in {"cache_build", "dispatch", "collect", "done"}

RECURSIVE FoldConnect(_, _, _)
\* connect_block applied to every block lo..hi in ascending order, starting
\* from utxo; ok is FALSE when a block of the range cannot be applied (it does
\* not deserialize, or connect_block does not return Valid).
FoldConnect(utxo, lo, hi) ==
  IF lo > hi THEN [ok |-> TRUE, utxo |-> utxo]
  ELSE LET c == ConnectBlock(blocks[lo], utxo, lo)
       IN IF ~Deserializes(blocks[lo]) \/ ~c.ok \/ c.result # "Valid"
            THEN [ok |-> FALSE, utxo |-> utxo]
            ELSE FoldConnect(c.utxo, lo + 1, hi)

RECURSIVE ChainState(_)
\* The chain state after the blocks 0..h-1 of the served chain: the blocks
\* that connect are applied from the empty set, the others leave it unchanged.
ChainState(h) ==
  IF h = 0 THEN {}
  ELSE LET prev == ChainState(h - 1)
           c == ConnectBlock(blocks[h - 1], prev, h - 1)
       IN IF Deserializes(blocks[h - 1]) /\ c.ok /\ c.result = "Valid"
            THEN c.utxo ELSE prev

RECURSIVE BoundaryHeights(_, _, _)
\* chunk_size-1, 2*chunk_size-1, ... below end, as a sequence.
BoundaryHeights(next, size, end) ==
  IF next - 1 >= end THEN <<>>
  ELSE <<next - 1>> \o BoundaryHeights(next + size, size, end)

CheckpointHeights == [i \in 1..Len(checkpoints) |-> checkpoints[i].height]

\* C1: with use_checkpoints, the first chunk is built with the empty set and
\* every later chunk with the Phase A snapshot recorded at its
\* start_height - 1, never with another snapshot and never with None (stated
\* for the DirectFile source, where the checkpoint list depends on the blocks
\* alone).
C1_SeedAtStartMinusOne ==
  (ChunksBuilt /\ cfg.use_checkpoints /\ cfg.source = "DirectFile") =>
    \A k \in 1..Len(chunks) :
      /\ chunks[k].checkpoint_utxo.some
      /\ IF k = 1 THEN chunks[k].seed = 0
         ELSE /\ chunks[k].seed > 0
              /\ checkpoints[chunks[k].seed].height = chunks[k].start_height - 1

\* C2: for start_height = 0 a successful generate_checkpoints returns the
\* heights chunk_size-1, 2*chunk_size-1, ... below actual_end, then
\* actual_end, each once.
C2_CheckpointHeights ==
  (GenSucceeded /\ cfg.start_height = 0) =>
    CheckpointHeights =
      BoundaryHeights(cfg.chunk_size, cfg.chunk_size, gen.actual_end)
        \o <<gen.actual_end>>

\* C3: every returned checkpoint (h, U) has U equal to connect_block applied
\* in ascending order, with no height omitted, to the blocks start_height..h.
C3_CheckpointIsFold ==
  GenSucceeded =>
    \A i \in 1..Len(checkpoints) :
      LET r == FoldConnect({}, cfg.start_height, checkpoints[i].height)
      IN r.ok /\ heap[checkpoints[i].utxo] = r.utxo

\* The worker w was seeded with checkpoint i, ran over h_i+1 .. h_{i+1} and
\* returned Ok.
RanBetween(w, i) ==
  /\ tasks[w].status = "ok"
  /\ chunks[w].seed = i
  /\ i + 1 <= Len(checkpoints)
  /\ checkpoints[i].height = chunks[w].start_height - 1
  /\ checkpoints[i + 1].height = tasks[w].actual_end
  /\ tasks[w].actual_end >= chunks[w].start_height

\* C4: a Phase B worker seeded with U_i that has run process_block over the
\* heights h_i+1 .. h_{i+1} ends with a UTXO set equal to U_{i+1}.
C4_WorkerReachesNextCheckpoint ==
  \A w \in 1..Len(tasks) : \A i \in 1..Len(checkpoints) :
    RanBetween(w, i) => heap[tasks[w].utxo] = heap[checkpoints[i + 1].utxo]

C4_Witness ==
  \E w \in 1..Len(tasks) : \E i \in 1..Len(checkpoints) :
    RanBetween(w, i) /\ tasks[w].tested >= 1

ChunkLen(c) == c.end_height - c.start_height + 1

\* C5: for start_height <= actual_end the chunks are ascending, disjoint and
\* contiguous, cover exactly start_height..actual_end, and each covers
\* chunk_size heights except the last, which covers between 1 and chunk_size.
C5_ChunksPartitionRange ==
  (ChunksBuilt /\ cfg.start_height <= actual_end) =>
    /\ Len(chunks) >= 1
    /\ chunks[1].start_height = cfg.start_height
    /\ chunks[Len(chunks)].end_height = actual_end
    /\ \A k \in 1..Len(chunks) :
         /\ ChunkLen(chunks[k]) >= 1
         /\ ChunkLen(chunks[k]) <= cfg.chunk_size
         /\ k < Len(chunks) =>
              /\ ChunkLen(chunks[k]) = cfg.chunk_size
              /\ chunks[k + 1].start_height = chunks[k].end_height + 1

C5_Witness ==
  /\ ChunksBuilt
  /\ Len(chunks) >= 2
  /\ ChunkLen(chunks[Len(chunks)]) < cfg.chunk_size

RunningTasks == {w \in 1..Len(tasks) : Running(tasks[w])}

\* C6: at every moment at most num_workers spawned tasks are executing
\* validate_chunk.
C6_AtMostNumWorkersRunning ==
  Cardinality(RunningTasks) <= cfg.num_workers

C6_Witness ==
  /\ pc = "dispatch"
  /\ Len(tasks) < Len(chunks)
  /\ cfg.num_workers >= 2
  /\ Cardinality(RunningTasks) = cfg.num_workers

\* The step is a process_block of worker w.
Processes(w) ==
  /\ w \in 1..Len(tasks)
  /\ Len(tasks') = Len(tasks)
  /\ tasks'[w].idx # tasks[w].idx

\* C7: a pushed checkpoint never changes, and a worker's process_block
\* changes neither a checkpoint nor the UTXO set of another worker.
C7_NoSharedUtxo ==
  [][ /\ \A i \in 1..Len(checkpoints) :
           /\ i <= Len(checkpoints')
           /\ checkpoints'[i] = checkpoints[i]
           /\ heap'[checkpoints[i].utxo] = heap[checkpoints[i].utxo]
      /\ \A w \in 1..Len(tasks) :
           Processes(w) =>
             \A v \in 1..Len(tasks) :
               (v # w /\ tasks[v].status # "start") =>
                 heap'[tasks[v].utxo] = heap[tasks[v].utxo] ]_vars

C7_Witness ==
  \E w, v \in 1..Len(tasks) :
    /\ w # v
    /\ tasks[w].status = "loop" /\ tasks[w].idx >= 1 /\ chunks[w].seed > 0
    /\ tasks[v].status = "loop" /\ tasks[v].idx >= 1
    /\ heap[tasks[w].utxo] # heap[checkpoints[chunks[w].seed].utxo]

\* C8: within one validate_chunk the k-th block processed (k from 0) is
\* given the height start_height + k, so heights ascend strictly and none is
\* processed twice.
C8_AscendingHeights ==
  \A w \in 1..Len(tasks) :
    \A k \in 1..Len(tasks[w].processed) :
      tasks[w].processed[k] = chunks[w].start_height + (k - 1)

C8_Witness ==
  \E w \in 1..Len(tasks) :
    Len(tasks[w].processed) >= 2 /\ chunks[w].start_height >= 1

\* C9: whenever the UTXO set at the end of worker i differs from the
\* checkpoint handed to worker i+1, the harness reports an invariant
\* violation for that boundary.
C9_BoundaryMismatchReported ==
  pc = "done" =>
    \A w \in 1..Len(tasks) :
      ( /\ w + 1 <= Len(tasks)
        /\ tasks[w].status = "ok"
        /\ chunks[w + 1].seed > 0
        /\ heap[tasks[w].utxo] # heap[checkpoints[chunks[w + 1].seed].utxo] )
      => <<"invariant_violation", w>> \in reports

\* C10: with use_checkpoints every connect_block call for height h is given
\* the chain state after all blocks 0..h-1, for every start_height.
C10_UtxoInIsChainState ==
  cfg.use_checkpoints =>
    \A e \in connectLog : e.utxo_in = ChainState(e.height)

\* connect_block returned Ok with the verdict Invalid in the logged call e.
ReturnedInvalid(e) ==
  LET c == ConnectBlock(blocks[e.height], e.utxo_in, e.height)
  IN c.ok /\ c.result = "Invalid"

\* C11: a block for which connect_block returns Invalid, in Phase A or in
\* Phase B, never aborts the harness: run_parallel_differential does not
\* return an error after such a verdict.
C11_InvalidNeverAborts ==
  (\E e \in connectLog : ReturnedInvalid(e)) => pc # "failed"

DivergenceHeights(t) == {t.divergences[j][1] : j \in 1..Len(t.divergences)}

\* C12: when the reference query for a height fails, the worker continues
\* and the height is recorded neither as a match nor as a divergence: the
\* blocks processed are the matches, the divergences and the heights whose
\* query failed, without overlap.
C12_RefFailureDisablesComparison ==
  \A w \in 1..Len(tasks) :
    /\ tasks[w].ref_failed \cap DivergenceHeights(tasks[w]) = {}
    /\ tasks[w].matched + Len(tasks[w].divergences)
         + Cardinality(tasks[w].ref_failed) = Len(tasks[w].processed)

\* C13: without a reference node (DirectFile, SharedCache without a client)
\* the reference verdict of every block processed is Valid, and the block is
\* a divergence exactly when the local verdict is Invalid.
C13_AssumeValidWithoutReference ==
  ~HasClient(cfg.source) =>
    \A w \in 1..Len(tasks) : \A k \in 1..Len(tasks[w].verdicts) :
      LET v == tasks[w].verdicts[k]
      IN /\ v[3] = Valid
         /\ (v[1] \in DivergenceHeights(tasks[w])) <=> (v[2].kind = "Invalid")

C13_Witness ==
  /\ ~HasClient(cfg.source)
  /\ \E w \in 1..Len(tasks) :
       /\ tasks[w].status = "ok"
       /\ tasks[w].matched >= 1
       /\ Len(tasks[w].divergences) >= 1

\* No answer of the environment has been a failure so far.
NoEnvFault == faults = Special(blocks)

\* C14: in Phase B a block that fails to deserialize aborts only that block:
\* no validate_chunk ends in an error on such a block.
C14_MalformedAbortsOnlyBlock ==
  \A w \in 1..Len(tasks) :
    ~ ( /\ tasks[w].status = "err"
        /\ NoEnvFault
        /\ ~Deserializes(blocks[EnumHeight(chunks[w].start_height, tasks[w].idx)]) )

\* C15: generate_checkpoints aborts on the first block that fails to
\* deserialize, for every source: no block is connected after such a block
\* and no checkpoint list is returned.
C15_MalformedAbortsPhaseA ==
  /\ \A e \in connectLog :
       e.phase = "A" =>
         \A h \in cfg.start_height..(e.height - 1) : Deserializes(blocks[h])
  /\ GenSucceeded =>
       \A h \in cfg.start_height..gen.actual_end : Deserializes(blocks[h])

\* validate_chunk of task w has returned Ok on the cache/RPC path.
ReturnedOkFetch(w) == tasks[w].status = "ok" /\ cfg.source # "DirectFile"

\* The divergences of r lie in its range, in ascending order of height.
DivergencesInRange(r) ==
  /\ \A j \in 1..Len(r.divergences) :
       r.divergences[j][1] \in r.start_height..r.end_height
  /\ \A i, j \in 1..Len(r.divergences) :
       i < j => r.divergences[i][1] < r.divergences[j][1]

CountersAgree ==
  \A w \in 1..Len(tasks) :
    tasks[w].tested = tasks[w].matched + Len(tasks[w].divergences)

\* C16 as stated: tested = matched + divergences at every point, and a
\* ChunkResult returned on the cache/RPC path has
\* tested = end_height - start_height + 1 and its divergences in range.
C16_TestedIsRangeLength ==
  /\ CountersAgree
  /\ \A w \in 1..Len(tasks) :
       ReturnedOkFetch(w) =>
         LET r == ChunkResultOf(w)
         IN /\ r.tested = r.end_height - r.start_height + 1
            /\ DivergencesInRange(r)

\* C16, amended: tested = matched + divergences at every point, and a
\* ChunkResult returned on the cache/RPC path has tested equal to the number
\* of heights in start_height..end_height (none when end_height is below
\* start_height) and its divergences in range, in ascending order.
C16_TestedIsRangeSize ==
  /\ CountersAgree
  /\ \A w \in 1..Len(tasks) :
       ReturnedOkFetch(w) =>
         LET r == ChunkResultOf(w)
         IN /\ r.tested = Cardinality(r.start_height..r.end_height)
            /\ DivergencesInRange(r)

C16_Witness ==
  \E w \in 1..Len(tasks) :
    /\ ReturnedOkFetch(w)
    /\ tasks[w].tested >= 1
    /\ tasks[w].actual_end < chunks[w].end_height

\* C17: a processed block is counted as matched iff both verdicts are Valid
\* or both are Invalid, whatever the messages; every other block appends
\* exactly one divergence (height, local verdict, reference verdict).
C17_MatchedIffSameKind ==
  \A w \in 1..Len(tasks) :
    LET t == tasks[w]
    IN /\ t.matched =
            Cardinality({k \in 1..Len(t.verdicts) :
                           t.verdicts[k][2].kind = t.verdicts[k][3].kind})
       /\ t.divergences =
            SelectSeq(t.verdicts, LAMBDA v : v[2].kind # v[3].kind)

C17_Witness ==
  \E w \in 1..Len(tasks) : \E k \in 1..Len(tasks[w].verdicts) :
    /\ tasks[w].verdicts[k][2].kind = "Invalid"
    /\ tasks[w].verdicts[k][3].kind = "Invalid"
    /\ tasks[w].verdicts[k][2] # tasks[w].verdicts[k][3]
    /\ tasks[w].matched >= 1

\* The ChunkResults of the tasks that returned Ok, in spawn order.
OkResults ==
  LET ok == SelectSeq([w \in 1..Len(tasks) |-> w],
                      LAMBDA w : tasks[w].status = "ok")
  IN [i \in 1..Len(ok) |-> ChunkResultOf(ok[i])]

\* C18: when a worker fails the harness still returns Ok with the ChunkResult
\* of every worker that returned Ok, in ascending start_height order, and the
\* failed chunk is surfaced in what is returned.
C18_FailedChunkSurfaced ==
  pc = "done" =>
    /\ results = OkResults
    /\ \A i, j \in 1..Len(results) :
         i < j => results[i].start_height < results[j].start_height
    /\ \A w \in 1..Len(tasks) :
         tasks[w].status = "err" =>
           \E i \in 1..Len(results) :
             results[i].start_height = chunks[w].start_height

\* Chunks whose UTXO snapshot exists: held in the chunk list before the
\* chunk is dispatched, held by the worker while it runs.
ChunkSnapshots ==
  {k \in 1..Len(chunks) :
     \/ k > Len(tasks) /\ chunks[k].checkpoint_utxo.some
     \/ k <= Len(tasks) /\ Running(tasks[k])}

\* C19: at every moment the number of UTXO snapshots that exist for chunks
\* is at most num_workers.
C19_SnapshotsBoundedByWorkers ==
  Cardinality(ChunkSnapshots) <= cfg.num_workers

\* C30: a chunk created with skip_validation = true is only read: no
\* connect_block call is made for a block of such a chunk and no divergence
\* is recorded for it, whatever the block source.
C30_SkippedChunkNotValidated ==
  \A w \in 1..Len(tasks) :
    chunks[w].skip_validation =>
      /\ tasks[w].divergences = <<>>
      /\ \A e \in connectLog :
           e.phase = "B" =>
             e.height \notin chunks[w].start_height..chunks[w].end_height


\* ============================================================ chunked cache
\* Cache indices 0..MaxBlocks-1 exist at most; with blocks_per_chunk up to
\* MaxPerChunk a request can start in a chunk other than chunk 0 and end
\* inside a chunk.
MaxBlocks == 3
MaxPerChunk == MaxBlocks - 1
MaxChunks == MaxBlocks

\* usize and u64 are modelled 8 bits wide.
UsizeMax == 255

\* Option<T>: {} is None, {v} is Some(v).
Some(v) == {v}
UnwrapOr(o, d) == IF o = {} THEN d ELSE CHOOSE v \in o : TRUE

\* ChunkMetadata (lines 11-16); the compression name plays no part.
Metadatas ==
  [total_blocks : 0..MaxBlocks, num_chunks : 0..MaxChunks,
   blocks_per_chunk : 0..MaxPerChunk]

\* File names chunk_<n>.bin.zst that may exist in the directory.
ChunkNums == 0..(MaxChunks - 1)

\* The blocks framed in chunk_<c>.bin.zst as split_and_compress_cache.sh
\* writes it: the cache indices c*blocks_per_chunk .. up to the next chunk or
\* the end of the cache.
ChunkBlocks(md, c) ==
  LET lo == c * md.blocks_per_chunk
      hi == Min((c + 1) * md.blocks_per_chunk, md.total_blocks)
  IN [k \in 1..(hi - lo) |-> lo + k - 1]

\* ------------------------------------------------------------ chunk streams
\* The block size limits of line 223.
MinBlockLen == 88
MaxBlockLen == 10 * 1024 * 1024

\* u32::to_le_bytes and u32::from_le_bytes.
ToLeBytes(n) ==
  <<n % 256, (n \div 256) % 256, (n \div 65536) % 256, (n \div 16777216) % 256>>

\* Faulty variant: the four bytes are read most significant first.
FromBeBytes(b) == b[4] + 256 * b[3] + 65536 * b[2] + 16777216 * b[1]

FromLeBytes(b) == b[1] + 256 * b[2] + 65536 * b[3] + 16777216 * b[4]

\* The longest block whose bytes are written out; its length takes the
\* second byte of the prefix.
MaxDecodedLen == 256

\* The frame lengths a stream may declare: an empty block, the two limits
\* and their outer neighbours, and a length in between.
LenValues ==
  {0, MinBlockLen - 1, MinBlockLen, MaxDecodedLen, MaxBlockLen, MaxBlockLen + 1}

\* Complete frames of one chunk at most.
MaxFrames == MaxPerChunk

\* How a decompressed stream ends after its complete frames: at a frame
\* boundary ("eof"), n bytes into a length prefix ("prefix"), n bytes into
\* the body of a frame that declares MinBlockLen bytes ("body"), or with an
\* I/O error other than end of file while the next prefix or the body after
\* a complete prefix is read.
Endings ==
  {[kind |-> "eof", n |-> 0]} \cup
  [kind : {"prefix"}, n : {1, 3}] \cup
  {[kind |-> "body", n |-> MinBlockLen - 1]} \cup
  [kind : {"ioerr_prefix", "ioerr_body"}, n : {0}]

\* What zstd -d --stdout writes for one chunk file: complete frames, each
\* given by the length of its block, and an ending.
Streams(n) ==
  [frames : UNION {[1..m -> LenValues] : m \in 0..n},
   ending : Endings]

EmptyStream == [frames |-> <<>>, ending |-> [kind |-> "eof", n |-> 0]]

\* The stream of a chunk file as split_and_compress_cache.sh writes it.
WrittenStream(md, c) ==
  [frames |-> [k \in 1..Len(ChunkBlocks(md, c)) |-> MinBlockLen],
   ending |-> [kind |-> "eof", n |-> 0]]

\* Bytes of the k-th length prefix that the stream supplies, and the prefix.
PrefixAvail(s, k) ==
  IF k <= Len(s.frames) THEN 4
  ELSE IF k > Len(s.frames) + 1 THEN 0
  ELSE IF s.ending.kind \in {"body", "ioerr_body"} THEN 4
  ELSE s.ending.n

PrefixAt(s, k) ==
  IF k <= Len(s.frames) THEN ToLeBytes(s.frames[k])
  ELSE IF k = Len(s.frames) + 1 /\ s.ending.kind \in {"body", "ioerr_body"}
    THEN ToLeBytes(MinBlockLen)
  ELSE ToLeBytes(0)

\* Bytes of the k-th block body that the stream supplies.
BodyAvail(s, k) ==
  IF k <= Len(s.frames) THEN s.frames[k]
  ELSE IF k = Len(s.frames) + 1 /\ s.ending.kind = "body" THEN s.ending.n
  ELSE 0

PrefixIoError(s, k) == k = Len(s.frames) + 1 /\ s.ending.kind = "ioerr_prefix"

BodyIoError(s, k) == k = Len(s.frames) + 1 /\ s.ending.kind = "ioerr_body"

\* Faulty variant: a short read is taken for a full one.
ReadSome(available, wanted) == available >= wanted \/ available > 0

\* Read::read_exact fills the buffer or fails with UnexpectedEof.
ReadExact(available, wanted) == available >= wanted

\* Faulty variant: a block one byte below the lower limit is let through.
ValidBlockLenLoose(block_len) ==
  ~(block_len > MaxBlockLen \/ block_len < MinBlockLen - 1)

\* Line 223: the block size check.
ValidBlockLen(block_len) ==
  ~(block_len > MaxBlockLen \/ block_len < MinBlockLen)

\* Faulty variant: the exit status is not looked at.
StatusIgnored(zstd_proc) == TRUE

\* Line 244: status.success().
StatusSuccess(zstd_proc) == zstd_proc.exit_ok

\* A call that returned Err(msg).
Err(msg) == [kind |-> "Err", blocks |-> <<>>, err |-> msg]

\* The state in which run_parallel_differential is not called.
HarnessIdle ==
  /\ cfg = [start_height |-> 0, end_height |-> MaxHeight, chunk_size |-> 1,
            num_workers |-> 1, use_checkpoints |-> FALSE, source |-> "DirectFile"]
  /\ blocks = [h \in Heights |-> "valid"]
  /\ pc = "idle"
  /\ actual_end = 0
  /\ gen = [actual_end |-> 0, height |-> 0, next_checkpoint |-> 0]
  /\ checkpoints = <<>>
  /\ chunks = <<>>
  /\ current_start = 0
  /\ checkpoint_idx = 0
  /\ permits = 0
  /\ tasks = <<>>
  /\ results = <<>>
  /\ collect_idx = 0
  /\ reports = {}
  /\ heap = [l \in Locs |-> {}]
  /\ connectLog = {}
  /\ faults = 0

\* A call load_chunked_cache(dir, start_height, max_blocks) on a directory
\* without chunks.meta, or with a parsed metadata and any set of chunk files,
\* each as split_and_compress_cache.sh writes it.
InitCache ==
  /\ HarnessIdle
  /\ MetaIdle
  /\ UnitIdle
  /\ cache_dir \in
       {[metadata |-> {}, present |-> {}, streams |-> <<>>]} \cup
       {[metadata |-> Some(md), present |-> pr,
         streams |-> [c \in ChunkNums |-> WrittenStream(md, c)]] :
          md \in Metadatas, pr \in SUBSET ChunkNums}
  /\ call \in [start_height : {{}} \cup {Some(v) : v \in 0..MaxBlocks},
               max_blocks : {{}} \cup {Some(v) : v \in 0..MaxBlocks},
               overflow_checks : BOOLEAN]
  /\ lpc = "start"
  /\ load = NoLoad
  /\ ret = Pending
  /\ decoded = Pending

\* A call load_chunked_cache(dir, None, None) on a directory of two chunk
\* files of MaxFrames blocks each, whose decompressed streams are arbitrary.
InitStream ==
  /\ HarnessIdle
  /\ MetaIdle
  /\ UnitIdle
  /\ \E s0 \in Streams(MaxFrames), s1 \in Streams(1) :
       cache_dir =
         [metadata |-> Some([total_blocks |-> 2 * MaxFrames, num_chunks |-> 2,
                             blocks_per_chunk |-> MaxFrames]),
          present |-> {0, 1},
          streams |-> [c \in ChunkNums |->
                         IF c = 0 THEN s0 ELSE IF c = 1 THEN s1 ELSE EmptyStream]]
  /\ call = [start_height |-> {}, max_blocks |-> {}, overflow_checks |-> TRUE]
  /\ lpc = "start"
  /\ load = NoLoad
  /\ ret = Pending
  /\ decoded = Pending

\* a - b in usize without overflow checks.
WrappingSub(a, b) == (a - b + UsizeMax + 1) % (UsizeMax + 1)

\* Lines 164-169: start_idx and end_idx.
StartIdx(start_height) == UnwrapOr(start_height, 0)

EndIdx(start_idx, max_blocks, total_blocks) ==
  IF max_blocks # {}
    THEN Min(start_idx + UnwrapOr(max_blocks, 0), total_blocks)
    ELSE total_blocks

\* Lines 151-175 and the range of line 180: metadata, indices, chunk range.
\* A division by zero panics; a subtraction below zero panics with overflow
\* checks and wraps without.
LoadStart ==
  /\ lpc = "start"
  /\ IF cache_dir.metadata = {}
       THEN /\ ret' = [kind |-> "None", blocks |-> <<>>, err |-> ""]  \* line 156
            /\ lpc' = "returned"
            /\ load' = load
       ELSE LET md == UnwrapOr(cache_dir.metadata, 0)
                start_idx == StartIdx(call.start_height)
                end_idx == EndIdx(start_idx, call.max_blocks, md.total_blocks)
                underflow == end_idx < 1 \/ md.num_chunks < 1
            IN IF md.blocks_per_chunk = 0 \/ (underflow /\ call.overflow_checks)
                 THEN lpc' = "panicked" /\ UNCHANGED <<load, ret>>
                 ELSE /\ load' =
                           [load EXCEPT
                              !.start_idx = start_idx,
                              !.end_idx = end_idx,
                              !.chunk_num = start_idx \div md.blocks_per_chunk,
                              !.last_chunk =
                                Min(WrappingSub(end_idx, 1) \div md.blocks_per_chunk,
                                    WrappingSub(md.num_chunks, 1)),
                              !.all_blocks = <<>>]
                      /\ lpc' = "chunks"
                      /\ ret' = ret
  /\ UNCHANGED <<harnessVars, metaVars, unitVars, cache_dir, call, decoded>>

\* Lines 180-208: the head of one iteration of the chunk loop.  A missing
\* file is skipped; otherwise the decompressor is spawned, and a decompressor
\* that cannot be started ends the call with Err.  How the child will exit
\* is fixed here.  No file exists from MaxChunks on, so the iterations from
\* there on are run as one.
LoadChunk ==
  /\ lpc = "chunks"
  /\ load.chunk_num <= load.last_chunk
  /\ LET c == load.chunk_num
     IN IF c \notin cache_dir.present
          THEN /\ load' = [load EXCEPT !.chunk_num =
                              IF c >= MaxChunks THEN load.last_chunk + 1 ELSE c + 1]
               /\ UNCHANGED <<lpc, ret>>
          ELSE \E spawned \in BOOLEAN, exit_ok \in BOOLEAN :
                 IF spawned
                   THEN /\ load' = [load EXCEPT
                                      !.zstd_proc = [state |-> "running",
                                                     exit_ok |-> exit_ok],
                                      !.blocks_in_chunk = 0]
                        /\ lpc' = "frames"
                        /\ ret' = ret
                   ELSE /\ exit_ok
                        /\ ret' = Err("Failed to start zstd")
                        /\ lpc' = "returned"
                        /\ load' = load
  /\ UNCHANGED <<harnessVars, metaVars, unitVars, cache_dir, call, decoded>>

\* What an OS pipe holds before a write to it blocks (64 KiB on Linux).
PipeCapacity == 65536

\* sum of 4 + frames[j] over the frames from j on.
RECURSIVE FrameBytesFrom(_, _)
FrameBytesFrom(s, j) ==
  IF j > Len(s.frames) THEN 0 ELSE 4 + s.frames[j] + FrameBytesFrom(s, j + 1)

\* The bytes of the stream that follow the k-th length prefix.
UnreadOutput(s, k) ==
  IF k > Len(s.frames) THEN 0
  ELSE s.frames[k] + FrameBytesFrom(s, k + 1)
       + (IF s.ending.kind = "prefix" THEN s.ending.n
          ELSE IF s.ending.kind = "body" THEN 4 + s.ending.n
          ELSE 0)

\* Child::wait returns once the child has exited.  The parent keeps the
\* read end of the stdout pipe open and reads no more, so the child exits
\* only if the output it has left fits into the pipe; a child with more to
\* write stays blocked in its write.  Output on stderr, which is piped and
\* never read, is taken to fit.
WaitReturns(s, k) == UnreadOutput(s, k) <= PipeCapacity

\* Lines 209-240: one iteration of the block loop, up to the return or to
\* the call of wait on an early exit.  The block pushed is written as its
\* cache index.
ReadFrame ==
  /\ lpc = "frames"
  /\ LET md == UnwrapOr(cache_dir.metadata, 0)
         c == load.chunk_num
         s == cache_dir.streams[c]
         k == load.blocks_in_chunk + 1
     IN IF PrefixIoError(s, k)
          THEN /\ ret' = [ret EXCEPT !.err = "io"]              \* lines 214-215
               /\ lpc' = "reap"
               /\ load' = load
          ELSE IF ~ReadExact(PrefixAvail(s, k), 4)
          THEN /\ lpc' = "wait"                                 \* line 213
               /\ UNCHANGED <<load, ret>>
          ELSE LET block_len == FromLeBytes(PrefixAt(s, k))
               IN IF ~ValidBlockLen(block_len)
                    THEN /\ ret' = [ret EXCEPT                  \* lines 223-224
                                       !.err = "Invalid block size"]
                         /\ lpc' = "reap"
                         /\ load' = load
                    ELSE IF BodyIoError(s, k)
                              \/ ~ReadExact(BodyAvail(s, k), block_len)
                    THEN /\ ret' = Err("io")                    \* line 230
                         /\ lpc' = "returned"
                         /\ load' = load
                    ELSE /\ load' = [load EXCEPT
                                       !.all_blocks =
                                         Append(@, c * md.blocks_per_chunk + k - 1),
                                       !.blocks_in_chunk = k]
                         /\ UNCHANGED <<lpc, ret>>
  /\ UNCHANGED <<harnessVars, metaVars, unitVars, cache_dir, call, decoded>>

\* Lines 215-216 and 224-225: the wait of an early exit returns, and the
\* call returns the error.
Reap ==
  /\ lpc = "reap"
  /\ WaitReturns(cache_dir.streams[load.chunk_num], load.blocks_in_chunk + 1)
  /\ load' = [load EXCEPT !.zstd_proc.state = "waited"]
  /\ ret' = Err(ret.err)
  /\ lpc' = "returned"
  /\ UNCHANGED <<harnessVars, metaVars, unitVars, cache_dir, call, decoded>>

\* Lines 242-249: the stream is at its end, so the child has written all
\* its output; it is waited for and its exit status decides.
WaitChunk ==
  /\ lpc = "wait"
  /\ IF StatusSuccess(load.zstd_proc)
       THEN /\ load' = [load EXCEPT !.zstd_proc.state = "waited",
                                    !.chunk_num = @ + 1]
            /\ lpc' = "chunks"
            /\ ret' = ret
       ELSE /\ load' = [load EXCEPT !.zstd_proc.state = "waited"]
            /\ ret' = Err("zstd decompression failed")
            /\ lpc' = "returned"
  /\ UNCHANGED <<harnessVars, metaVars, unitVars, cache_dir, call, decoded>>

\* Iterator::skip(n).take(m) on a Vec.
SkipTake(seq, n, m) == SubSeq(seq, n + 1, Min(Len(seq), n + m))

\* Lines 251-260: the filter to the requested range and the return.
LoadFilter ==
  /\ lpc = "chunks"
  /\ load.chunk_num > load.last_chunk
  /\ IF load.start_idx > 0 \/ load.end_idx < Len(load.all_blocks)
       THEN IF load.end_idx < load.start_idx /\ call.overflow_checks
              THEN lpc' = "panicked" /\ ret' = ret
              ELSE /\ ret' = [kind |-> "Some",
                              blocks |-> SkipTake(load.all_blocks, load.start_idx,
                                            WrappingSub(load.end_idx, load.start_idx)),
                              err |-> ""]
                   /\ lpc' = "returned"
       ELSE /\ ret' = [kind |-> "Some", blocks |-> load.all_blocks, err |-> ""]
            /\ lpc' = "returned"
  /\ UNCHANGED <<harnessVars, metaVars, unitVars, cache_dir, call, load, decoded>>

\* ------------------------------------------------------- load_chunk_blocks
\* The bytes of the block with cache index idx and length len.
Body(idx, len) == [i \in 1..len |-> (idx + 1) % 256]

\* The chunk data file format: the concatenation of (u32 little-endian
\* length, block bytes) records.
RECURSIVE Encode(_)
Encode(bs) ==
  IF bs = <<>> THEN <<>>
  ELSE ToLeBytes(Len(Head(bs))) \o Head(bs) \o Encode(Tail(bs))

\* The blocks of the complete frames of chunk c.
StreamBlocks(md, c) ==
  LET s == cache_dir.streams[c]
  IN [k \in 1..Len(s.frames) |->
        Body(c * md.blocks_per_chunk + k - 1, s.frames[k])]

\* The bytes that follow the last complete frame.
Trailing(s) ==
  IF s.ending.kind = "prefix"
    THEN SubSeq(ToLeBytes(MinBlockLen), 1, s.ending.n)
  ELSE IF s.ending.kind = "body"
    THEN ToLeBytes(MinBlockLen) \o Body(0, s.ending.n)
  ELSE <<>>

\* The decompressed bytes of chunk c, for a stream that decompresses without
\* an I/O error and whose blocks are short enough to be written out.
Renderable(s) ==
  /\ s.ending.kind \in {"eof", "prefix", "body"}
  /\ \A k \in 1..Len(s.frames) : s.frames[k] <= MaxDecodedLen

ChunkBytes(md, c) == Encode(StreamBlocks(md, c)) \o Trailing(cache_dir.streams[c])

\* Lines 119-142: the loop of load_chunk_blocks from a given offset on.
RECURSIVE LoadChunkBlocksFrom(_, _, _)
LoadChunkBlocksFrom(chunk_data, offset, bs) ==
  IF offset + 4 <= Len(chunk_data)
    THEN LET block_len == FromLeBytes(SubSeq(chunk_data, offset + 1, offset + 4))
             body == offset + 4
         IN IF body + block_len > Len(chunk_data)
              THEN Err("Block extends beyond chunk data")
              ELSE LoadChunkBlocksFrom(
                     chunk_data, body + block_len,
                     Append(bs, SubSeq(chunk_data, body + 1, body + block_len)))
    ELSE [kind |-> "Ok", blocks |-> bs, err |-> ""]

load_chunk_blocks(chunk_data) == LoadChunkBlocksFrom(chunk_data, 0, <<>>)

\* A call load_chunk_blocks(chunk_data) on the decompressed bytes of one of
\* the chunk files, made once load_chunked_cache is through.  The chunk is
\* kept with the result.
LoadChunkBlocks ==
  /\ lpc \in {"returned", "panicked"}
  /\ decoded.kind = "Pending"
  /\ \E c \in cache_dir.present :
       /\ Renderable(cache_dir.streams[c])
       /\ decoded' =
            [chunk |-> c] @@
            load_chunk_blocks(ChunkBytes(UnwrapOr(cache_dir.metadata, 0), c))
  /\ UNCHANGED <<harnessVars, metaVars, unitVars, cache_dir, call, lpc, load, ret>>

NextCache ==
  \/ LoadStart
  \/ LoadChunk
  \/ ReadFrame
  \/ WaitChunk
  \/ LoadFilter
  \/ LoadChunkBlocks

SpecCache == InitCache /\ [][NextCache]_vars

\* On arbitrary streams the early exits that wait for the child are taken as
\* well; the streams of InitCache never lead there.
NextStream ==
  \/ NextCache
  \/ Reap

SpecStream == InitStream /\ [][NextStream]_vars

\* ----------------------------------------------------- chunked cache claims
\* chunks.meta describes the directory and every chunk file is there.
WellFormedCache ==
  /\ cache_dir.metadata # {}
  /\ LET md == UnwrapOr(cache_dir.metadata, 0)
     IN /\ md.blocks_per_chunk >= 1
        /\ md.num_chunks * md.blocks_per_chunk >= md.total_blocks
        /\ (md.num_chunks - 1) * md.blocks_per_chunk < md.total_blocks
        /\ \A c \in 0..(md.num_chunks - 1) : c \in cache_dir.present

\* The cache indices start .. min(start + max_blocks, total_blocks) - 1.
RequestedBlocks ==
  LET md == UnwrapOr(cache_dir.metadata, 0)
      start == StartIdx(call.start_height)
      end == EndIdx(start, call.max_blocks, md.total_blocks)
  IN [k \in 1..(end - start) |-> start + k - 1]

\* C20: for a well-formed cache with blocks_per_chunk >= 1 and every chunk
\* file decompressing, what load_chunked_cache returns is exactly the blocks
\* with cache indices start .. min(start + max_blocks, total_blocks) - 1 in
\* order, also for a start that lies in a chunk other than chunk 0.
C20_ReturnsRequestedRange ==
  (lpc = "returned" /\ WellFormedCache /\ ret.kind # "Err") =>
    ret = [kind |-> "Some", blocks |-> RequestedBlocks, err |-> ""]

\* ------------------------------------------------------ chunk stream claims
\* The stream of the chunk the reader is at, and the frame it is at.
CurrentStream == cache_dir.streams[load.chunk_num]

CurrentFrame == load.blocks_in_chunk + 1

\* The declared length of the block with cache index idx.
BlockLen(idx) ==
  LET md == UnwrapOr(cache_dir.metadata, 0)
  IN cache_dir.streams[idx \div md.blocks_per_chunk]
       .frames[(idx % md.blocks_per_chunk) + 1]

\* load_chunked_cache returned Ok(Some(blocks)).
ReturnedSome == lpc = "returned" /\ ret.kind = "Some"

\* The chunks the call went through without leaving early.
ChunksRead == {c \in cache_dir.present : c < load.chunk_num}

\* C21: every block that load_chunked_cache returns has a length L with
\* 88 <= L <= 10,485,760; the call ends with the invalid block size error
\* exactly at a frame whose length is outside these bounds, and then returns
\* no blocks; a call that returns blocks has met no such frame.
C21_BlockLengthsInBounds ==
  /\ ReturnedSome =>
       /\ \A i \in 1..Len(ret.blocks) :
            BlockLen(ret.blocks[i]) \in MinBlockLen..MaxBlockLen
       /\ \A c \in ChunksRead : \A k \in 1..Len(cache_dir.streams[c].frames) :
            cache_dir.streams[c].frames[k] \in MinBlockLen..MaxBlockLen
  /\ (lpc = "returned" /\ ret.err = "Invalid block size") =>
       /\ ret.kind = "Err"
       /\ ret.blocks = <<>>
       /\ CurrentFrame <= Len(CurrentStream.frames)
       /\ CurrentStream.frames[CurrentFrame]
            \notin MinBlockLen..MaxBlockLen
  /\ (lpc = "returned" /\ ret.kind \notin {"None", "Some"}
        /\ ret.err # "Failed to start zstd"
        /\ CurrentFrame <= Len(CurrentStream.frames)
        /\ CurrentStream.frames[CurrentFrame]
             \notin MinBlockLen..MaxBlockLen) =>
       ret = Err("Invalid block size")

\* Blocks of both limit lengths are returned.
C21_Witness ==
  /\ ReturnedSome
  /\ \E i, j \in 1..Len(ret.blocks) :
       /\ BlockLen(ret.blocks[i]) = MinBlockLen
       /\ BlockLen(ret.blocks[j]) = MaxBlockLen

\* C22: on every exit of load_chunked_cache taken after a decompressor child
\* was spawned (end of stream, invalid frame length, I/O error on the length
\* prefix, block body cut short) the child has been waited on before the
\* function returns.
C22_ChildReapedOnReturn ==
  (lpc = "returned" /\ load.zstd_proc.state # "none") =>
    load.zstd_proc.state = "waited"

\* C25: while load_chunked_cache streams a chunk it never holds a whole chunk
\* in memory: the block buffers it retains stay below blocks_per_chunk, the
\* number of blocks of a chunk, as a bound that does not grow with
\* blocks_per_chunk requires.
C25_NeverHoldsWholeChunk ==
  lpc \in {"chunks", "frames", "wait"} =>
    Len(load.all_blocks) < UnwrapOr(cache_dir.metadata, 0).blocks_per_chunk

\* The reader reached the end of the stream of the chunk it is at, and every
\* frame it read there was well-formed.
StreamReadToEnd ==
  /\ load.zstd_proc.state = "waited"
  /\ CurrentFrame = Len(CurrentStream.frames) + 1
  /\ CurrentStream.ending.kind \in {"eof", "prefix"}
  /\ \A k \in 1..Len(CurrentStream.frames) :
       ValidBlockLen(CurrentStream.frames[k])

\* C27: if the decompressor of a chunk exits with a non-zero status,
\* load_chunked_cache returns an error and none of the blocks read so far,
\* from that chunk or from earlier ones, even when every frame it read was
\* well-formed; a call that returns blocks has seen every decompressor
\* succeed.
C27_FailedDecompressorIsError ==
  /\ (lpc = "returned" /\ load.zstd_proc.state # "none"
        /\ ~load.zstd_proc.exit_ok) =>
       (ret.kind = "Err" /\ ret.blocks = <<>>)
  /\ (lpc = "returned" /\ StreamReadToEnd /\ ~load.zstd_proc.exit_ok) =>
       ret = Err("zstd decompression failed")
  /\ ReturnedSome => load.zstd_proc.exit_ok

\* The decompressor of the second chunk fails after well-formed blocks were
\* read from both chunks.
C27_Witness ==
  /\ lpc = "returned"
  /\ ret = Err("zstd decompression failed")
  /\ load.chunk_num = 1
  /\ load.blocks_in_chunk >= 1
  /\ Len(load.all_blocks) > load.blocks_in_chunk
  /\ StreamReadToEnd

\* load_chunk_blocks was called on the bytes of a chunk with this ending.
DecodedEnding(kind) ==
  /\ decoded.kind # "Pending"
  /\ cache_dir.streams[decoded.chunk].ending.kind = kind

\* C23: a chunk stream that ends in the middle of a block body never yields
\* a partial block: load_chunked_cache and load_chunk_blocks both return an
\* error, and neither returns a block list, be it with the shortened block
\* or with the blocks read before it.
C23_CutBodyIsError ==
  /\ (lpc = "returned" /\ load.zstd_proc.state # "none"
        /\ CurrentStream.ending.kind = "body"
        /\ CurrentFrame = Len(CurrentStream.frames) + 1) =>
       (ret.kind = "Err" /\ ret.blocks = <<>>)
  /\ ReturnedSome =>
       \A c \in ChunksRead : cache_dir.streams[c].ending.kind # "body"
  /\ DecodedEnding("body") => (decoded.kind = "Err" /\ decoded.blocks = <<>>)

\* Both readers met a body cut short after complete blocks.
C23_Witness ==
  /\ lpc = "returned"
  /\ ret = Err("io")
  /\ CurrentStream.ending.kind = "body"
  /\ load.blocks_in_chunk >= 1
  /\ DecodedEnding("body")
  /\ decoded.chunk = load.chunk_num
  /\ decoded.kind = "Err"

\* C24: a chunk stream that ends part-way through a 4-byte length prefix
\* (1 to 3 bytes after the last complete frame) makes load_chunked_cache, and
\* likewise load_chunk_blocks, return an error instead of being taken for a
\* normal end of chunk.
C24_PartialPrefixIsError ==
  /\ ReturnedSome =>
       \A c \in ChunksRead : cache_dir.streams[c].ending.kind # "prefix"
  /\ DecodedEnding("prefix") => decoded.kind = "Err"

\* C28: round trip of the chunk framing: for a sequence of blocks,
\* load_chunk_blocks applied to the concatenation of the (u32 little-endian
\* length, block bytes) records returns the same blocks in the same order.
C28_FramingRoundTrip ==
  DecodedEnding("eof") =>
    /\ decoded.kind = "Ok"
    /\ decoded.blocks = StreamBlocks(UnwrapOr(cache_dir.metadata, 0), decoded.chunk)

\* Two blocks are decoded, one of them empty and one whose length takes the
\* second byte of the prefix.
C28_Witness ==
  /\ DecodedEnding("eof")
  /\ Len(decoded.blocks) = 2
  /\ \E i, j \in 1..2 :
       /\ decoded.blocks[i] = <<>>
       /\ Len(decoded.blocks[j]) = MaxDecodedLen

\* C29: load_chunk_blocks enforces the length bounds of the chunk data file:
\* every block it returns has a length in 88..10*2^20, and a frame with a
\* length outside the bounds is rejected with an error.
C29_DecoderEnforcesBounds ==
  /\ decoded.kind = "Ok" =>
       \A i \in 1..Len(decoded.blocks) :
         Len(decoded.blocks[i]) \in MinBlockLen..MaxBlockLen
  /\ (decoded.kind # "Pending"
        /\ \E k \in 1..Len(cache_dir.streams[decoded.chunk].frames) :
             cache_dir.streams[decoded.chunk].frames[k]
               \notin MinBlockLen..MaxBlockLen) =>
       decoded.kind = "Err"

\* ====================================================== load_chunk_metadata
\* A line of chunks.meta is a sequence of tokens: a space, '#', '=', a digit
\* or a word.  Lines of the file at most.
MaxLines == 5

Digits == {"1", "2"}

\* str::trim.
RECURSIVE TrimStart(_)
TrimStart(s) == IF s # <<>> /\ Head(s) = " " THEN TrimStart(Tail(s)) ELSE s

RECURSIVE TrimEnd(_)
TrimEnd(s) ==
  IF s # <<>> /\ s[Len(s)] = " " THEN TrimEnd(SubSeq(s, 1, Len(s) - 1)) ELSE s

Trim(s) == TrimEnd(TrimStart(s))

\* str::starts_with(char).
StartsWith(s, t) == s # <<>> /\ s[1] = t

\* str::split_once(char): the parts before and after the first t, or None.
SplitOnce(s, t) ==
  LET at == {i \in 1..Len(s) : s[i] = t}
  IN IF at = {} THEN {}
     ELSE LET i == CHOOSE j \in at : \A l \in at : j <= l
          IN Some(<<SubSeq(s, 1, i - 1), SubSeq(s, i + 1, Len(s))>>)

\* str::parse::<u64>().ok(): the decimal value of a non-empty run of digits.
RECURSIVE DecimalValue(_)
DecimalValue(s) ==
  IF s = <<>> THEN 0
  ELSE 10 * DecimalValue(SubSeq(s, 1, Len(s) - 1))
       + (IF s[Len(s)] = "1" THEN 1 ELSE 2)

ParseOk(s) ==
  IF s # <<>> /\ \A i \in 1..Len(s) : s[i] \in Digits
    THEN Some(DecimalValue(s))
    ELSE {}

\* Faulty variant: a value that is already there is kept.
AssignFirst(old, new) == IF old # {} THEN old ELSE new

\* The assignments of lines 38-41.
Assign(old, new) == new

\* Lines 32-44: one line of the file.
ParseLine(acc, text) ==
  LET line == Trim(text)
  IN IF StartsWith(line, "#") \/ line = <<>> THEN acc
     ELSE LET kv == SplitOnce(line, "=")
          IN IF kv = {} THEN acc
             ELSE LET key == Trim(UnwrapOr(kv, <<>>)[1])
                      value == Trim(UnwrapOr(kv, <<>>)[2])
                  IN IF key = <<"total_blocks">>
                       THEN [acc EXCEPT !.total_blocks = Assign(@, ParseOk(value))]
                     ELSE IF key = <<"num_chunks">>
                       THEN [acc EXCEPT !.num_chunks = Assign(@, ParseOk(value))]
                     ELSE IF key = <<"blocks_per_chunk">>
                       THEN [acc EXCEPT !.blocks_per_chunk = Assign(@, ParseOk(value))]
                     ELSE IF key = <<"compression">>
                       THEN [acc EXCEPT !.compression = Assign(@, Some(value))]
                     ELSE acc

\* Lines 26-45: the loop over the lines.
RECURSIVE ParseLines(_, _)
ParseLines(acc, lines) ==
  IF lines = <<>> THEN acc
  ELSE ParseLines(ParseLine(acc, Head(lines).text), Tail(lines))

\* Lines 47-58: the record if the four values are there.
MetadataOf(acc) ==
  IF acc.total_blocks # {} /\ acc.num_chunks # {}
       /\ acc.blocks_per_chunk # {} /\ acc.compression # {}
    THEN [kind |-> "Some",
          metadata |-> Some([total_blocks |-> UnwrapOr(acc.total_blocks, 0),
                             num_chunks |-> UnwrapOr(acc.num_chunks, 0),
                             blocks_per_chunk |-> UnwrapOr(acc.blocks_per_chunk, 0),
                             compression |-> UnwrapOr(acc.compression, <<>>)])]
    ELSE [kind |-> "None", metadata |-> {}]

\* The lines a file is made of.  Next to its text each line carries what it
\* says: the required key it gives ("" if none), the number its value
\* denotes, if any, and for compression its value.
MetaLine(text, key, num, comp) ==
  [text |-> text, key |-> key, num |-> num, comp |-> comp]

MetaLines ==
  {MetaLine(<<" ">>, "", {}, {}),
   MetaLine(<<" ", "#", "total_blocks", "=", "1">>, "", {}, {}),
   MetaLine(<<"num_chunks">>, "", {}, {}),
   MetaLine(<<"chunk_size", "=", "1">>, "", {}, {}),
   MetaLine(<<"total_blocks", "=", "1">>, "total_blocks", {1}, {}),
   MetaLine(<<" ", "total_blocks", " ", "=", " ", "2", " ">>,
            "total_blocks", {2}, {}),
   MetaLine(<<"total_blocks", "=", "zstd">>, "total_blocks", {}, {}),
   MetaLine(<<"num_chunks", "=", "1">>, "num_chunks", {1}, {}),
   MetaLine(<<"blocks_per_chunk", "=", "1", "2">>, "blocks_per_chunk", {12}, {}),
   MetaLine(<<"compression", "=", "zstd">>, "compression", {}, {<<"zstd">>}),
   MetaLine(<<"compression", "=">>, "compression", {}, {<<>>})}

\* A call load_chunk_metadata(chunks_dir): chunks.meta is missing, or is
\* there and cannot be read as UTF-8 text, or holds up to MaxLines lines.
InitMeta ==
  /\ HarnessIdle
  /\ CacheIdle
  /\ UnitIdle
  /\ meta_file \in
       {[exists |-> FALSE, readable |-> TRUE, lines |-> <<>>],
        [exists |-> TRUE, readable |-> FALSE, lines |-> <<>>]} \cup
       [exists : {TRUE}, readable : {TRUE},
        lines : UNION {[1..n -> MetaLines] : n \in 0..MaxLines}]
  /\ meta_ret = [kind |-> "Pending", metadata |-> {}]

\* Lines 19-59.
LoadChunkMetadata ==
  /\ meta_ret.kind = "Pending"
  /\ meta_ret' =
       IF ~meta_file.exists
         THEN [kind |-> "None", metadata |-> {}]                \* line 22
       ELSE IF ~meta_file.readable
         THEN [kind |-> "Err", metadata |-> {}]                 \* line 25
       ELSE MetadataOf(ParseLines(
              [total_blocks |-> {}, num_chunks |-> {},
               blocks_per_chunk |-> {}, compression |-> {}],
              meta_file.lines))
  /\ UNCHANGED <<harnessVars, cacheVars, unitVars, meta_file>>

NextMeta == LoadChunkMetadata

SpecMeta == InitMeta /\ [][NextMeta]_vars

\* --------------------------------------------------------- metadata claims
\* The last line that gives the key, 0 if there is none.
LastOf(key) ==
  LET at == {i \in 1..Len(meta_file.lines) : meta_file.lines[i].key = key}
  IN IF at = {} THEN 0 ELSE CHOOSE i \in at : \A j \in at : j <= i

\* The file supplies the key: its last occurrence has a value, for the three
\* counts one that parses as an unsigned integer.
Supplied(key) ==
  /\ LastOf(key) # 0
  /\ key = "compression" \/ meta_file.lines[LastOf(key)].num # {}

AllSupplied ==
  \A key \in {"total_blocks", "num_chunks", "blocks_per_chunk", "compression"} :
    Supplied(key)

NumOf(key) == UnwrapOr(meta_file.lines[LastOf(key)].num, 0)

\* The record of the last occurrences.
SuppliedMetadata ==
  [total_blocks |-> NumOf("total_blocks"),
   num_chunks |-> NumOf("num_chunks"),
   blocks_per_chunk |-> NumOf("blocks_per_chunk"),
   compression |-> UnwrapOr(meta_file.lines[LastOf("compression")].comp, <<>>)]

\* C26: load_chunk_metadata returns Some(metadata) iff chunks.meta exists
\* and, blank lines, comment lines, lines without '=' and unknown keys apart,
\* supplies the four required keys, the three counts parsing as unsigned
\* integers and the last occurrence of a key deciding; in every other case
\* it returns None.
C26_SomeIffSuppliedElseNone ==
  meta_ret.kind # "Pending" =>
    IF meta_file.exists /\ AllSupplied
      THEN meta_ret = [kind |-> "Some", metadata |-> Some(SuppliedMetadata)]
      ELSE meta_ret = [kind |-> "None", metadata |-> {}]

\* C26, amended: as above for a file that is missing or can be read as UTF-8
\* text; for a file that exists and cannot be read the call returns an error.
C26_SomeIffSuppliedElseNoneOrErr ==
  meta_ret.kind # "Pending" =>
    IF ~meta_file.exists
      THEN meta_ret = [kind |-> "None", metadata |-> {}]
    ELSE IF ~meta_file.readable
      THEN meta_ret = [kind |-> "Err", metadata |-> {}]
    ELSE IF AllSupplied
      THEN meta_ret = [kind |-> "Some", metadata |-> Some(SuppliedMetadata)]
    ELSE meta_ret = [kind |-> "None", metadata |-> {}]

\* A record is returned for a file that gives total_blocks twice with
\* different values.
C26_Witness ==
  /\ meta_ret.kind = "Some"
  /\ \E i, j \in 1..Len(meta_file.lines) :
       /\ i < j
       /\ meta_file.lines[i].key = "total_blocks"
       /\ meta_file.lines[j].key = "total_blocks"
       /\ meta_file.lines[i].num # meta_file.lines[j].num

\* ------------------------------------------------- index arithmetic claims
\* load_chunked_cache got past the metadata and computed its indices.
IndicesComputed == lpc \notin {"idle", "start"} /\ cache_dir.metadata # {}

\* C37: for every parsed metadata and every start_height and max_blocks the
\* index arithmetic of load_chunked_cache has no unsigned underflow and no
\* division by zero: end_idx - 1, num_chunks - 1, end_idx - start_idx and the
\* divisions by blocks_per_chunk stay in range, and an empty requested range
\* yields an empty block list.
C37_IndexArithmeticInRange ==
  LET md == UnwrapOr(cache_dir.metadata, 0)
      start == StartIdx(call.start_height)
      end == EndIdx(start, call.max_blocks, md.total_blocks)
  IN /\ lpc # "panicked"
     /\ IndicesComputed =>
          (md.blocks_per_chunk >= 1 /\ end >= 1 /\ md.num_chunks >= 1)
     /\ (IndicesComputed /\ ReturnedSome
           /\ (load.start_idx > 0 \/ load.end_idx < Len(load.all_blocks))) =>
          load.end_idx >= load.start_idx
     /\ (IndicesComputed /\ ReturnedSome /\ end <= start) => ret.blocks = <<>>

\* chunks.meta describes a cache that was split into num_chunks chunks.
MetadataConsistent ==
  /\ cache_dir.metadata # {}
  /\ LET md == UnwrapOr(cache_dir.metadata, 0)
     IN /\ md.blocks_per_chunk >= 1
        /\ md.num_chunks * md.blocks_per_chunk >= md.total_blocks
        /\ (md.num_chunks - 1) * md.blocks_per_chunk < md.total_blocks

\* C39: whenever load_chunked_cache returns Some(blocks), the block at
\* position k is the block with cache index start + k, also when a chunk
\* file inside the needed chunk range is missing; here for a consistent
\* chunks.meta and a request that starts in chunk 0.
C39_PositionsAreCacheIndices ==
  (MetadataConsistent /\ ReturnedSome
     /\ load.start_idx < UnwrapOr(cache_dir.metadata, 0).blocks_per_chunk) =>
    \A k \in 1..Len(ret.blocks) : ret.blocks[k] = load.start_idx + k - 1

\* C35: when the block loop of load_chunked_cache meets a frame length
\* outside 88..10,485,760, the call returns the error for every amount of
\* decompressor output that is still unread: the parent is never left in a
\* wait for a child that cannot exit.
C35_WaitNeverBlocks ==
  (lpc = "reap" /\ ret.err = "Invalid block size") =>
    WaitReturns(CurrentStream, CurrentFrame)

\* ============================================================ connect_block
\* The block connector with its UTXO sets and undo log (spec section 4.7),
\* and process_block on top of it.  A UTXO set is a set of <<outpoint, coin>>
\* pairs with one coin per outpoint; a coin is its value.
MaxTxs == 3
CoinValues == {1, 2}

\* Outpoints of the set before the block, and the outpoint of the output
\* that the k-th transaction of the block creates: it is keyed by the txid,
\* so no other transaction and no earlier block has it.
OldOutpoints == {<<"u", 1>>, <<"u", 2>>}
NewOutpoint(k) == <<"t", k>>

UtxoSets ==
  {u \in SUBSET (OldOutpoints \X CoinValues) :
     \A p, q \in u : p[1] = q[1] => p = q}

\* A transaction spends one outpoint (a coinbase none) and creates one
\* output.
Txs ==
  [spends : {<<"coinbase", 0>>} \cup OldOutpoints \cup {NewOutpoint(1)},
   value : CoinValues]

Blocks == UNION {[1..n -> Txs] : n \in 1..MaxTxs}

\* UtxoSet::get, remove and insert.
Has(u, o) == \E p \in u : p[1] = o
CoinOf(u, o) == (CHOOSE p \in u : p[1] = o)[2]
Remove(u, o) == {p \in u : p[1] # o}
Insert(u, o, coin) == Remove(u, o) \cup {<<o, coin>>}

IsCoinbase(tx) == tx.spends = <<"coinbase", 0>>

\* Step 3: exactly one coinbase, at index 0.
CoinbaseOk(block) ==
  /\ IsCoinbase(block[1])
  /\ \A k \in 2..Len(block) : ~IsCoinbase(block[k])

\* Faulty variant: the undo log is started anew by every transaction.
UndoEntryLast(undo, o, coin) == <<<<o, coin>>>>

\* Step 5: the removed (outpoint, coin) pair is appended to the undo log.
UndoEntry(undo, o, coin) == Append(undo, <<o, coin>>)

\* Step 5 from the k-th transaction on, on the working set: the input must
\* be there and cover the output; the spent outpoint is removed and entered
\* in the undo log, the new output inserted.  On a failure the working set
\* of that moment is handed back in `working`.
RECURSIVE ConnectFrom(_, _, _, _)
ConnectFrom(block, k, working, undo) ==
  IF k > Len(block)
    THEN [result |-> "Valid", working |-> working, undo |-> undo]
  ELSE LET tx == block[k]
       IN IF IsCoinbase(tx)
            THEN ConnectFrom(block, k + 1,
                             Insert(working, NewOutpoint(k), tx.value), undo)
          ELSE IF ~Has(working, tx.spends)
                    \/ CoinOf(working, tx.spends) < tx.value
            THEN [result |-> "Invalid", working |-> working, undo |-> <<>>]
          ELSE ConnectFrom(
                 block, k + 1,
                 Insert(Remove(working, tx.spends), NewOutpoint(k), tx.value),
                 UndoEntry(undo, tx.spends, CoinOf(working, tx.spends)))

\* connect_block(block, witnesses, utxo_in, height, None, Mainnet): Err, or
\* Ok((result, utxo_out, undo_log)).  With Invalid the working set and the
\* undo log are discarded; the set handed back with it is the input set or
\* the working set of the failure, as `on_invalid` says.
connect_block(block, utxo_in, fails, on_invalid) ==
  IF fails
    THEN [ok |-> FALSE, result |-> "Invalid", utxo |-> utxo_in, undo |-> <<>>]
  ELSE IF ~CoinbaseOk(block)
    THEN [ok |-> TRUE, result |-> "Invalid", utxo |-> utxo_in, undo |-> <<>>]
  ELSE LET c == ConnectFrom(block, 1, utxo_in, <<>>)
       IN [ok |-> TRUE, result |-> c.result, undo |-> c.undo,
           utxo |-> IF c.result = "Valid" \/ on_invalid = "working"
                      THEN c.working ELSE utxo_in]

\* Reverting a block: the pairs of the undo log are reinserted in order and
\* the outputs the block created are removed by their outpoint.
RECURSIVE Reinsert(_, _)
Reinsert(u, undo) ==
  IF undo = <<>> THEN u
  ELSE Reinsert(Insert(u, Head(undo)[1], Head(undo)[2]), Tail(undo))

ApplyUndo(u, undo, block) ==
  {p \in Reinsert(u, undo) : p[1] \notin {NewOutpoint(k) : k \in 1..Len(block)}}

\* A call process_block(.., &mut utxo_set, ..) on a block that deserializes.
InitConnect ==
  /\ HarnessIdle
  /\ CacheIdle
  /\ MetaIdle
  /\ pb \in [called : {TRUE}, block : Blocks, utxo_set : UtxoSets,
             fails : BOOLEAN, on_invalid : {"input", "working"}]
  /\ pb.fails => pb.on_invalid = "input"
  /\ pb_ret = [kind |-> "Pending"]
  /\ rbf = [called |-> FALSE]
  /\ rbf_ret = "Pending"

\* Lines 585-604: connect_block on a clone of the worker's set, the set
\* stored and the local verdict.  What connect_block returned is kept with
\* the result.
ProcessBlock ==
  /\ pb.called
  /\ pb_ret.kind = "Pending"
  /\ LET c == connect_block(pb.block, pb.utxo_set, pb.fails, pb.on_invalid)
     IN pb_ret' = [kind |-> LocalVerdict(c).kind,
                   utxo_set |-> ProcessBlockUtxo(c, pb.utxo_set),
                   connected |-> c]
  /\ UNCHANGED <<harnessVars, cacheVars, metaVars, pb, rbf, rbf_ret>>

NextConnect == ProcessBlock

SpecConnect == InitConnect /\ [][NextConnect]_vars

\* ----------------------------------------------------------- connector claims
\* C31: when the local verdict for a block is Invalid, be it that
\* connect_block returned Ok with Invalid or returned Err, the worker's UTXO
\* set after process_block is exactly what it was before the block, whatever
\* set connect_block returned alongside the verdict.
C31_InvalidKeepsUtxoSet ==
  pb_ret.kind = "Invalid" => pb_ret.utxo_set = pb.utxo_set

\* C32: undo round trip: if connect_block(B, U) returns (Valid, U', undo),
\* then reinserting the pairs of the undo log into U' and removing the
\* outputs B created yields exactly U.
C32_UndoRoundTrip ==
  (pb_ret.kind = "Valid") =>
    ApplyUndo(pb_ret.connected.utxo, pb_ret.connected.undo, pb.block)
      = pb.utxo_set

\* A valid block that spends a coin of the set and an output of its own.
C32_Witness ==
  /\ pb_ret.kind = "Valid"
  /\ Len(pb_ret.connected.undo) = 2
  /\ \E i, j \in 1..2 :
       /\ pb_ret.connected.undo[i][1] \in OldOutpoints
       /\ pb_ret.connected.undo[j][1] = NewOutpoint(1)
  /\ pb.utxo_set # {}
  /\ pb_ret.connected.utxo # pb.utxo_set

\* ------------------------------------------------------------ mempool policy
\* replacement_checks(new_tx, existing_tx, utxo_set, mempool) of
\* bllvm_consensus::mempool, which benchmark_replacement_checks calls
\* (benches/consensus/mempool_operations.rs, lines 97-114).  A call is
\* described by what the rules read: the incumbent's input sequence, whether
\* an ancestor of it signals, the sizes in vbytes, the feerates in sat/vB,
\* the minimum relay feerate, and what the replacement does to the mempool.

\* A u32 sequence number as its two 16-bit halves, the high one first:
\* 0xFFFFFFFE is <<0xFFFF, 0xFFFE>>.
U16Max == 65535

SequenceBelow(a, b) == a[1] < b[1] \/ (a[1] = b[1] /\ a[2] < b[2])

\* BIP125: an input signals replaceability with a sequence below 0xFFFFFFFE.
MaxBip125Sequence == <<U16Max, U16Max - 1>>

SequenceFinal == <<U16Max, U16Max>>

MaxReplacementEvictions == 100

Sequences == {<<0, 0>>, <<U16Max - 1, U16Max>>, <<U16Max, U16Max - 2>>,
              MaxBip125Sequence, SequenceFinal}

TxSizes == {100, 250}

FeeRates == {1, 3}

RelayFeeRates == {1, 2}

Fee(size, feerate) == size * feerate

\* Rule (a): some input of the incumbent has a sequence below 0xFFFFFFFE, or
\* the incumbent descends from a transaction that signals.
SignalsReplaceability(r) ==
  SequenceBelow(r.sequence, MaxBip125Sequence) \/ r.inherited

\* Faulty variant: any strictly higher absolute fee pays for the replacement.
PaysForReplacementLoose(r) ==
  Fee(r.new_size, r.new_feerate) > Fee(r.size, r.feerate)

\* Rule (b): strictly higher absolute fee, and at least the minimum relay
\* feerate times the replacement's own size above the incumbent's fee.
PaysForReplacement(r) ==
  /\ Fee(r.new_size, r.new_feerate) > Fee(r.size, r.feerate)
  /\ Fee(r.new_size, r.new_feerate)
       >= Fee(r.size, r.feerate) + r.min_relay * r.new_size

\* Rules (a) to (d) in order; the first that fails gives the reason.
replacement_checks(r) ==
  IF ~SignalsReplaceability(r) THEN "Reject(NotReplaceable)"
  ELSE IF ~PaysForReplacement(r) THEN "Reject(InsufficientFee)"
  ELSE IF r.new_parents THEN "Reject(NewUnconfirmedParents)"
  ELSE IF r.evictions > MaxReplacementEvictions
       THEN "Reject(TooManyEvictions)"
  ELSE "Accept"

InitMempool ==
  /\ HarnessIdle
  /\ CacheIdle
  /\ MetaIdle
  /\ pb = [called |-> FALSE]
  /\ pb_ret = [kind |-> "Pending"]
  /\ rbf \in [called : {TRUE}, sequence : Sequences, inherited : BOOLEAN,
              size : TxSizes, feerate : {1}, new_size : TxSizes,
              new_feerate : FeeRates, min_relay : RelayFeeRates,
              new_parents : BOOLEAN,
              evictions : {0, MaxReplacementEvictions + 1}]
  /\ rbf_ret = "Pending"

ReplacementChecks ==
  /\ rbf.called
  /\ rbf_ret = "Pending"
  /\ rbf_ret' = replacement_checks(rbf)
  /\ UNCHANGED <<harnessVars, cacheVars, metaVars, pb, pb_ret, rbf>>

NextMempool == ReplacementChecks

SpecMempool == InitMempool /\ [][NextMempool]_vars

\* ------------------------------------------------------------ mempool claims
\* The replacement of the benchmark: the mempool holds nothing but the
\* incumbent, so nothing is inherited, no parent is new and nothing more is
\* evicted.
BenchReplacement ==
  /\ rbf_ret # "Pending"
  /\ ~rbf.inherited
  /\ ~rbf.new_parents
  /\ rbf.evictions = 0
  /\ rbf.feerate = 1

InitConfig ==
  /\ cfg \in [start_height : 0..(MaxHeight + 1),
              end_height : Heights,
              chunk_size : 0..MaxChunk,
              num_workers : 0..MaxWorkers,
              use_checkpoints : BOOLEAN,
              source : Sources]
  /\ blocks = [h \in Heights |-> "valid"]
  /\ pc = "start"
  /\ actual_end = 0
  /\ gen = [actual_end |-> 0, height |-> 0, next_checkpoint |-> 0]
  /\ checkpoints = <<>>
  /\ chunks = <<>>
  /\ current_start = 0
  /\ checkpoint_idx = 0
  /\ permits = 0
  /\ tasks = <<>>
  /\ results = <<>>
  /\ collect_idx = 0
  /\ reports = {}
  /\ heap = [l \in Locs |-> {}]
  /\ connectLog = {}
  /\ faults = 0
  /\ CacheIdle
  /\ MetaIdle
  /\ UnitIdle

SpecConfig == InitConfig /\ [][Next]_vars

\* ------------------------------------------------ configuration claims
CeilDiv(n, d) == (n + d - 1) \div d

\* Number of heights in start_height..actual_end.
RangeLen ==
  IF actual_end >= cfg.start_height THEN actual_end - cfg.start_height + 1 ELSE 0

\* Every iteration of the chunk-building loop so far has moved current_start
\* forward by at least one height.
ChunkLoopAdvances ==
  pc = "chunks" => Len(chunks) <= current_start - cfg.start_height

ChunkCountIsCeil ==
  (ChunksBuilt /\ cfg.chunk_size >= 1) =>
    Len(chunks) = CeilDiv(RangeLen, cfg.chunk_size)

CheckpointCountIsChunkCount ==
  (ChunksBuilt /\ GenSucceeded /\ cfg.chunk_size >= 1) =>
    Len(checkpoints) = Len(chunks)

\* C36: the chunk-building loop terminates for every start_height, actual_end
\* and chunk_size, 0 included; for chunk_size >= 1 it produces exactly
\* ceil((actual_end - start_height + 1) / chunk_size) chunks, as many as the
\* checkpoints a successful Phase A returned.
C36_ChunkLoopTerminatesWithCeilChunks ==
  /\ ChunkLoopAdvances
  /\ ChunkCountIsCeil
  /\ CheckpointCountIsChunkCount

\* C38: for every start_height, end_height, chain_height and chunk_size >= 1,
\* an empty range included, no u64 subtraction underflows: nothing panics on
\* one, and generate_checkpoints is in its loop only if
\* `end_height - start_height` did not wrap; an empty range yields no
\* checkpoints, no chunks and an empty result list.
C38_EmptyRangeIsHarmless ==
  cfg.chunk_size >= 1 =>
    /\ pc # "panicked"
    /\ pc = "gen_loop" => actual_end >= cfg.start_height
    /\ (pc # "start" /\ RangeLen = 0) =>
         checkpoints = <<>> /\ chunks = <<>> /\ results = <<>>

\* C34: the dispatch loop is never blocked for ever: whenever it waits for a
\* permit, a task that holds one is still running, and gives it back when it
\* ends, so that every chunk is dispatched and the run returns, for every
\* config.num_workers and every number of chunks (of chunk_size >= 1).
C34_DispatchWaitsOnlyForRunningTask ==
  (/\ cfg.chunk_size >= 1
   /\ pc = "dispatch"
   /\ Len(tasks) < Len(chunks)
   /\ ~CanAcquire(permits)) =>
    \E w \in 1..Len(tasks) : Running(tasks[w])
====
